---- MODULE Spec2Model ----
(***************************************************************************)
(* Session / authentication engine of aioaquarea: the auth_required guard  *)
(* (three copies in the repository), Client.login with its asyncio lock,   *)
(* the Authenticator choreography, the signed header builder and the       *)
(* request executor, driven by concurrent callers on one event loop.       *)
(*                                                                         *)
(* Granularity: asyncio is cooperative, so one action is the code that     *)
(* runs between two suspension points (an await on the network or on the   *)
(* lock).  A caller's pc names the await it is suspended on.               *)
(*                                                                         *)
(* Time: dt.datetime.now() is modelled by `clock`.  Every network response *)
(* arrives strictly later than the previous event (clock + 1); Tick lets   *)
(* time pass while no call is in progress.                                 *)
(***************************************************************************)
EXTENDS Integers, Sequences, FiniteSets, TLC

\* ------------------------------------------------------------------ bounds
NumCallers == 2
MaxCalls == 1
MaxClock == 10
MaxExpiry == 5

Callers == 1..NumCallers

\* --------------------------------------------------------------- constants
None == "None"
\* dt.datetime.min, the initial _last_login: earlier than every clock value
DatetimeMin == -1
\* None in a field that otherwise holds a time
NoTime == -2

\* the three copies of the guard in the repository
Variants == {"decorators", "core", "custom"}

\* the members of AuthenticationErrorCodes
INVALID_USERNAME_OR_PASSWORD == "1001-1401"
SESSION_CLOSED == "1001-0001"
INVALID_CREDENTIALS == "1000-1401"
\* AuthenticationErrorCodes has no member TOKEN_EXPIRED and no member API_ERROR:
\* evaluating AuthenticationErrorCodes.TOKEN_EXPIRED or .API_ERROR raises this
ATTRIBUTE_ERROR == "AttributeError"
\* the text look_for_errors takes for a token-expiry message
TOKEN_EXPIRES == "Token expires"
\* ApiError (not AuthenticationError) values
MISSING_AUTHENTICATION_TOKEN == "Missing Authentication Token"
OTHER_API_ERROR == "9999"
\* a failure of the HTTP layer: no ApiError at all
TRANSPORT_ERROR == "transport"

\* class AuthenticationError(ApiError)
IsAuthenticationError(e) ==
    e \in {INVALID_USERNAME_OR_PASSWORD, SESSION_CLOSED, INVALID_CREDENTIALS}

\* class ApiError(ClientError)
IsApiError(e) ==
    IsAuthenticationError(e) \/ e \in {MISSING_AUTHENTICATION_TOKEN, OTHER_API_ERROR}

\* bodies of a 200 answer of /oauth/token; "tok\ud800" is a JSON string with a
\* lone surrogate, which str.encode("utf-8") rejects
TokenResponses ==
    { [access_token |-> "tokA", refresh_token |-> "refA", expires_in |-> 5, scope |-> "openid"],
      [access_token |-> "tokB", refresh_token |-> "refB", expires_in |-> 20, scope |-> "openid offline_access"],
      [access_token |-> "tok\\ud800", refresh_token |-> "refB", expires_in |-> 20, scope |-> "openid"] }

ClientIds == {"accA"}

\* what the backend answers to a guarded operation: no error entry, an entry
\* with one of these codes, one of these message strings, or no answer at all
OpResponses ==
    {"ok", TOKEN_EXPIRES, SESSION_CLOSED, INVALID_USERNAME_OR_PASSWORD,
     MISSING_AUTHENTICATION_TOKEN, OTHER_API_ERROR, TRANSPORT_ERROR}

\* what request() raises for the answer r.  AquareaAPIClient.look_for_errors
\* evaluates AuthenticationErrorCodes.TOKEN_EXPIRED for a token-expiry message;
\* Client.look_for_errors in core.py has no such branch and request() raises
\* ApiError("unknown_error_code", ...)
request_raises(v, r) ==
    IF r = TOKEN_EXPIRES
    THEN IF v = "core" THEN OTHER_API_ERROR ELSE ATTRIBUTE_ERROR
    ELSE r

VARIABLES
    variant,           \* which copy of auth_required wraps the operation
    refresh_login,     \* Client._refresh_login
    clock,             \* dt.datetime.now()
    access_token,      \* Client._access_token
    token_expiration,  \* Client._token_expiration
    last_login,        \* Client._last_login
    settings,          \* PanasonicSettings (CredentialState)
    login_lock,        \* Client._login_lock: 0 free, else the holder
    waiters,           \* asyncio.Lock._waiters, FIFO
    pc,                \* per caller: the await it is suspended on
    intent,            \* per caller: login()'s local `intent`
    tokRecv,           \* per caller: unix_time_token_received
    err,               \* per caller: the exception the call ended with
    result,            \* per caller: the response each invocation of fn got
    loginCalls,        \* per caller and call: calls of login()
    relogins,          \* per caller and call: calls of login() from the except clause
    opCalls,           \* per caller and call: invocations of fn
    applied,           \* per caller and call: control requests the backend applied
    calls,             \* per caller: guarded calls made so far
    sent,              \* per caller: headers of the last signed request it sent
    credBefore,        \* per caller: settings when its authenticate() began
    authCount,         \* authenticate() executions started so far
    loginDone,         \* clock of the last login() that returned normally
    logged_result,     \* the value is_logged returned last (SpecIsLogged)
    data,              \* the JSON body request() got (SpecEnvelope)
    throw_on_error,    \* request()'s parameter (SpecEnvelope)
    outcome,           \* how request() ended (SpecEnvelope)
    zone,              \* a DeviceZone: its status snapshot values (SpecSpecial)
    special_status,    \* Device.special_status (SpecSpecial)
    update,            \* the ZoneTemperatureSetUpdate computed last (SpecSpecial)
    history,           \* the special statuses set so far (SpecSpecial)
    original,          \* the zone's targets before the first change (SpecSpecial)
    special_request,   \* the body post_device_set_special_status sent last (SpecSpecial)
    device,            \* a DeviceImpl: zone statuses, has_tank, tank (SpecSetMode)
    posted,            \* what set_mode passed to post_device_operation_update (SpecSetMode)
    zones_info,        \* DeviceInfo.zones: the zone descriptors (SpecZones)
    status_zones,      \* DeviceStatus.zones: the snapshot entries (SpecZones)
    zone_view,         \* per zone id: what the getters of the built zone return (SpecZones)
    device_impl,       \* which DeviceImpl the device is: entities.py or core.py (SpecConsumption)
    refresh_enabled,   \* the condition under which refresh_data refreshes consumption
    consumption_refresh_lock, \* DeviceImpl._consumption_refresh_lock: 0 free, else the holder
    last_consumption_refresh, \* DeviceImpl._last_consumption_refresh
    device_status,     \* DeviceImpl._status: the number of the snapshot it holds
    rpc,               \* per refresh_data task: the await it is suspended on
    refreshes,         \* per task: refresh_data calls made so far
    installed,         \* per task: the snapshot its current call stored in _status
    requested,         \* per task: consumption requests its current call issued
    skipped,           \* per task: its current call found the lock held
    retrieval,         \* per task: what get_device_consumption gave its current call
    rerr,              \* per task: the exception its refresh_data ended with
    dates_left,        \* core.py: dates the holder of the lock has still to fetch
    auth_pc,           \* Authenticator: the request it awaits the answer of (SpecAuth)
    auth_sent,         \* the requests authenticate() / refresh_token() sent, in order
    auth_answers,      \* the answers to them, in order
    auth_settings,     \* PanasonicSettings (CredentialState)
    auth_err,          \* the exception authenticate() / refresh_token() ended with
    version_refreshes, \* calls of CCAppVersion.refresh() in the current run
    auth_now,          \* the time
    auth_stamp,        \* the local unix_time_token_received
    server_expiry,     \* when the server takes the token of auth_settings as expired
    local_zone,        \* the time zone of the process
    client_session,    \* Client._access_token and Client._token_expiration
    session_server_expiry, \* when the server takes the token of client_session as expired
    auth_runs,         \* runs of authenticate() / refresh_token() started so far
    api_client,        \* AquareaAPIClient._access_token and ._token_expiration (SpecRotation)
    api_settings,      \* AquareaAPIClient._settings: the PanasonicSettings it signs with
    api_data,          \* the JSON body of the last response request() got
    api_outcome,       \* how the last request() ended
    api_sent,          \* the bearer tokens of the signed requests sent, in order
    api_pc,            \* where request() is: idle, awaiting the response, or raised
    class_zones,       \* Device._zones, the dict of the class: per zone id the zone stored
    devices,           \* per Device instance: its _info.zones, its _status.zones, ... (SpecDevices)
    devices_impl,      \* which DeviceImpl the devices are: entities.py or core.py
    ds_zones,          \* a Device's zones: sensor, targets, modifiers (SpecDeviceSpecial)
    ds_special,        \* Device._status.special_status
    ds_backend,        \* the backend's special status and zone targets of the device
    ds_posts,          \* the special-status requests sent, in order
    ds_outcome,        \* how the last set_special_status ended
    st_impl,           \* the module get_device_status is taken from (SpecStatus)
    st_mode,           \* device_info.status_data_mode
    st_cache,          \* _cache_devices[device_id], when the key is there
    st_pc,             \* get_device_status: idle, awaiting live / cached answer, done
    st_requests,       \* the status requests the current call issued, in order
    st_errors,         \* the exceptions those requests raised, in order
    st_outcome,        \* how the current or last call of get_device_status ended
    st_live_up,        \* whether the live endpoint answers
    st_served,         \* successful cached fetches since the last failed live fetch
    cg_pc,             \* Client.get_device: where its guards are (SpecCompose)
    cg_attempt,        \* the attempt of the guard of get_device / of get_device_status
    cg_logged,         \* Client.is_logged
    cg_logins,         \* calls of login() made by the call of get_device
    cg_invocations,    \* how each run of the body of get_device_status it caused ended
    cg_refresh,        \* Client.is_refresh_login_enabled
    cg_err,            \* the exception the call of get_device ended with
    gd_devices,        \* DeviceManager._devices (SpecGetDevices)
    gd_pc,             \* get_devices: idle or awaiting the group listing, the guard's attempt,
                       \* is_refresh_login_enabled
    gd_requests,       \* per run of get_devices: whether it sent the request, how it ended
    gd_outcome         \* how the last get_devices ended

clientVars == <<access_token, token_expiration, last_login>>
lockVars == <<login_lock, waiters>>
callVars == <<pc, intent, tokRecv, err, result, loginCalls, relogins, opCalls, applied,
              calls, sent>>
ghostVars == <<credBefore, authCount, loginDone>>
envelopeVars == <<data, throw_on_error, outcome>>
specialVars == <<zone, special_status, update, history, original, special_request>>
setModeVars == <<device, posted>>
zonesVars == <<zones_info, status_zones, zone_view>>
consumptionVars == <<device_impl, refresh_enabled, consumption_refresh_lock,
                     last_consumption_refresh, device_status, rpc, refreshes, installed,
                     requested, skipped, retrieval, rerr, dates_left>>
authVars == <<auth_pc, auth_sent, auth_answers, auth_settings, auth_err, version_refreshes,
              auth_now, auth_stamp, server_expiry, local_zone, client_session,
              session_server_expiry, auth_runs>>
rotationVars == <<api_client, api_settings, api_data, api_outcome, api_sent, api_pc>>
devicesVars == <<class_zones, devices, devices_impl>>
deviceSpecialVars == <<ds_zones, ds_special, ds_backend, ds_posts, ds_outcome>>
statusVars == <<st_impl, st_mode, st_cache, st_pc, st_requests, st_errors, st_outcome,
                st_live_up, st_served>>
composeVars == <<cg_pc, cg_attempt, cg_logged, cg_logins, cg_invocations, cg_refresh, cg_err>>
getDevicesVars == <<gd_devices, gd_pc, gd_requests, gd_outcome>>
earlierVars == <<envelopeVars, specialVars, setModeVars, zonesVars, consumptionVars, authVars,
                 rotationVars, devicesVars>>
laterVars == <<deviceSpecialVars, statusVars, composeVars, getDevicesVars>>
pureVars == <<earlierVars, laterVars>>
\* per specification of a single function: the variables of the others
notEnvelope == <<specialVars, setModeVars, zonesVars, consumptionVars,
               authVars, rotationVars, devicesVars, laterVars>>
notSpecial == <<envelopeVars, setModeVars, zonesVars, consumptionVars,
               authVars, rotationVars, devicesVars, laterVars>>
notSetMode == <<envelopeVars, specialVars, zonesVars, consumptionVars,
               authVars, rotationVars, devicesVars, laterVars>>
notZones == <<envelopeVars, specialVars, setModeVars, consumptionVars,
               authVars, rotationVars, devicesVars, laterVars>>
notConsumption == <<envelopeVars, specialVars, setModeVars, zonesVars,
               authVars, rotationVars, devicesVars, laterVars>>
notAuth == <<envelopeVars, specialVars, setModeVars, zonesVars, consumptionVars,
            rotationVars, devicesVars, laterVars>>
notRotation == <<envelopeVars, specialVars, setModeVars, zonesVars, consumptionVars,
                authVars, devicesVars, laterVars>>
notDevices == <<envelopeVars, specialVars, setModeVars, zonesVars, consumptionVars,
               authVars, rotationVars, laterVars>>
notDeviceSpecial == <<earlierVars, statusVars, composeVars, getDevicesVars>>
notStatus == <<earlierVars, deviceSpecialVars, composeVars, getDevicesVars>>
notCompose == <<earlierVars, deviceSpecialVars, getDevicesVars>>
notGetDevices == <<earlierVars, deviceSpecialVars, statusVars, composeVars>>
auxVars == <<logged_result, pureVars>>
vars == <<variant, refresh_login, clock, clientVars, settings, lockVars, callVars,
          ghostVars, auxVars>>

\* ------------------------------------------------------------ CredentialState
\* PanasonicSettings.__init__
EmptySettings ==
    [access_token |-> None, refresh_token |-> None, expires_at |-> NoTime,
     scope |-> None, clientId |-> None]

\* PanasonicSettings.set_token via Authenticator._set_token
set_token(s, token_response, unix_time_token_received) ==
    [s EXCEPT !.access_token = token_response.access_token,
              !.refresh_token = token_response.refresh_token,
              !.expires_at = unix_time_token_received + token_response.expires_in,
              !.scope = token_response.scope]

\* ------------------------------------------------------------------ is_logged
\* mutation of is_logged: the token still counts as valid at its expiry
is_logged_inclusive(token, expiration, now) ==
    IF token = None \/ token = ""
    THEN FALSE
    ELSE IF expiration = NoTime
         THEN TRUE
         ELSE now <= expiration

\* Client.is_logged: `not self._access_token` is true for None and for ""
is_logged(token, expiration, now) ==
    IF token = None \/ token = ""
    THEN FALSE
    ELSE IF expiration = NoTime
         THEN TRUE
         ELSE now < expiration

IsLogged == is_logged(access_token, token_expiration, clock)

\* -------------------------------------------------------------- RequestSigner
\* PanasonicRequestHeader._get_api_key: the digest, or None when anything in
\* the try block raises (token.encode on a lone surrogate)
get_api_key(token) ==
    IF token = "tok\\ud800" THEN None ELSE "cfc" \o token

\* PanasonicRequestHeader.get: the headers of a cloud-API request.  The key is
\* put into the headers as computed, None included.
RequestHeader(s) ==
    [api_key |-> get_api_key(s.access_token), authorization |-> s.access_token]

\* no request sent yet
NoRequest == [api_key |-> None, authorization |-> None]

\* --------------------------------------------------------------- SessionGuard
\* aioaquarea/decorators.py, the except clause of _wrap (first invocation).
\* The test of lines 51-57 is `(ApiError and "Missing Authentication Token" in
\* str) or (AuthenticationError and code == AuthenticationErrorCodes.TOKEN_EXPIRED)`:
\* for an AuthenticationError the second operand is evaluated up to the
\* attribute access, which raises AttributeError inside the except clause.
decorators_wrap(refresh, e) ==
    IF ~IsApiError(e) THEN "raise"
    ELSE IF IsAuthenticationError(e) /\ e = INVALID_USERNAME_OR_PASSWORD THEN "raise"
    ELSE IF ~refresh THEN "raise"
    ELSE IF IsApiError(e) /\ e = MISSING_AUTHENTICATION_TOKEN THEN "relogin"
    ELSE IF IsAuthenticationError(e) THEN "attribute_error"
    ELSE "raise"

\* mutation of core_wrap: the invalid-credentials code is not singled out
core_wrap_any_code(refresh, e) ==
    IF ~IsAuthenticationError(e) THEN "raise"
    ELSE IF ~refresh THEN "raise"
    ELSE "relogin"

\* mutation of core_wrap: is_refresh_login_enabled is not consulted
core_wrap_refresh_ignored(refresh, e) ==
    IF ~IsAuthenticationError(e) THEN "raise"
    ELSE IF e = INVALID_USERNAME_OR_PASSWORD THEN "raise"
    ELSE "relogin"

\* aioaquarea/core.py, the except clause of _wrap: only AuthenticationError is caught
core_wrap(refresh, e) ==
    IF ~IsAuthenticationError(e) THEN "raise"
    ELSE IF e = INVALID_USERNAME_OR_PASSWORD \/ ~refresh THEN "raise"
    ELSE "relogin"

\* mutation of custom_wrap: `except Exception`, so a transport failure is
\* retried like an ApiError
custom_wrap_catch_all(refresh, e) ==
    IF (IsAuthenticationError(e) /\ e = INVALID_USERNAME_OR_PASSWORD)
       \/ (IsApiError(e) /\ e = MISSING_AUTHENTICATION_TOKEN)
       \/ ~refresh
    THEN "raise"
    ELSE "relogin"

\* custom_components/aquarea/aioaquarea/decorators.py, the except clause of _wrap
custom_wrap(refresh, e) ==
    IF ~IsApiError(e) THEN "raise"
    ELSE IF (IsAuthenticationError(e) /\ e = INVALID_USERNAME_OR_PASSWORD)
            \/ (IsApiError(e) /\ e = MISSING_AUTHENTICATION_TOKEN)
            \/ ~refresh
         THEN "raise"
         ELSE "relogin"

\* mutation of wrap_on_error: the second invocation stands inside the try too
wrap_on_error_retry_in_try(v, refresh, e, attempt) ==
    CASE v = "decorators" -> decorators_wrap(refresh, e)
      [] v = "core" -> core_wrap(refresh, e)
      [] OTHER -> custom_wrap(refresh, e)

\* what _wrap does when invocation number `attempt` of fn raises e: the second
\* invocation stands in the except clause, outside the try, so e propagates
wrap_on_error(v, refresh, e, attempt) ==
    IF attempt > 1 THEN "raise"
    ELSE CASE v = "decorators" -> decorators_wrap(refresh, e)
           [] v = "core" -> core_wrap(refresh, e)
           [] OTHER -> custom_wrap(refresh, e)

\* ------------------------------------------------------------------- pc values
AuthPcs ==
    {"authorize", "authorize_redirect", "login", "login_callback", "login_redirect",
     "get_token", "get_acc_client_id", "get_acc_client_id_retry"}
LoginPcs == AuthPcs \cup {"wait_lock", "groups"}

\* ---------------------------------------------------------------------- Init
\* Client.__init__ apart from the session fields, and no caller active
InitRest ==
    /\ last_login = DatetimeMin
    /\ settings = EmptySettings
    /\ login_lock = 0
    /\ waiters = <<>>
    /\ pc = [c \in Callers |-> "idle"]
    /\ intent = [c \in Callers |-> DatetimeMin]
    /\ tokRecv = [c \in Callers |-> 0]
    /\ err = [c \in Callers |-> None]
    /\ result = [c \in Callers |-> <<>>]
    /\ loginCalls = [c \in Callers |-> 0]
    /\ relogins = [c \in Callers |-> 0]
    /\ opCalls = [c \in Callers |-> 0]
    /\ applied = [c \in Callers |-> 0]
    /\ calls = [c \in Callers |-> 0]
    /\ sent = [c \in Callers |-> NoRequest]
    /\ credBefore = [c \in Callers |-> EmptySettings]
    /\ authCount = 0
    /\ loginDone = DatetimeMin
    /\ logged_result = "unread"

\* request() not called
NoOutcome == [kind |-> "none", error_code |-> None, error_message |-> None]

\* the variables of SpecEnvelope at rest
RestEnvelope ==
    /\ data = [shape |-> "no_message", items |-> <<>>]
    /\ throw_on_error = TRUE
    /\ outcome = NoOutcome

\* None where a temperature is expected (int | None)
NoTemp == -1000

\* no ZoneTemperatureSetUpdate computed
NoUpdate == [cool_set |-> NoTemp, heat_set |-> NoTemp]

\* no request body sent
NoSpecialRequest == [specialStatus |-> 0, keys |-> {}, heatSet |-> NoTemp, coolSet |-> NoTemp]

\* the variables of SpecSpecial at rest
RestSpecial ==
    /\ zone = [cool_mode |-> FALSE,
               heat_set |-> NoTemp, heat_min |-> NoTemp, heat_max |-> NoTemp,
               cool_set |-> NoTemp, cool_min |-> NoTemp, cool_max |-> NoTemp,
               eco |-> [heat |-> 0, cool |-> 0], comfort |-> [heat |-> 0, cool |-> 0]]
    /\ special_status = None
    /\ update = NoUpdate
    /\ history = <<>>
    /\ original = NoUpdate
    /\ special_request = NoSpecialRequest

\* set_mode not called
NotPosted ==
    [state |-> "none", mode |-> None, zone_id |-> 0, zones |-> <<>>,
     operation_status |-> None]

\* the variables of SpecSetMode at rest
RestSetMode ==
    /\ device = [zones |-> <<>>, has_tank |-> FALSE, tank |-> None]
    /\ posted = NotPosted

\* the variables of SpecZones at rest
RestZones ==
    /\ zones_info = <<>>
    /\ status_zones = <<>>
    /\ zone_view = <<>>

\* the variables of SpecConsumption at rest: no refresh_data task
RestConsumption ==
    /\ device_impl = "entities"
    /\ refresh_enabled = FALSE
    /\ consumption_refresh_lock = 0
    /\ last_consumption_refresh = None
    /\ device_status = 0
    /\ rpc = <<>>
    /\ refreshes = <<>>
    /\ installed = <<>>
    /\ requested = <<>>
    /\ skipped = <<>>
    /\ retrieval = <<>>
    /\ rerr = <<>>
    /\ dates_left = 0

\* Client.__init__: no token, no expiry
NoSession == [access_token |-> None, token_expiration |-> NoTime]

\* the variables of SpecAuth at rest: no run of the Authenticator
RestAuth ==
    /\ auth_pc = "idle"
    /\ auth_sent = <<>>
    /\ auth_answers = <<>>
    /\ auth_settings = EmptySettings
    /\ auth_err = None
    /\ version_refreshes = 0
    /\ auth_now = 0
    /\ auth_stamp = 0
    /\ server_expiry = NoTime
    /\ local_zone = "utc"
    /\ client_session = NoSession
    /\ session_server_expiry = NoTime
    /\ auth_runs = 0

\* a body without an "accessToken" key
NoEmbedded == [keys |-> "absent", token |-> None, format |-> None, time |-> NoTime]

\* a JSON body with neither "accessToken" nor "message"
PlainBody == [json |-> TRUE, accessToken |-> NoEmbedded, items |-> <<>>]

\* the variables of SpecRotation at rest: no request made
RestRotation ==
    /\ api_client = NoSession
    /\ api_settings = EmptySettings
    /\ api_data = PlainBody
    /\ api_outcome = NoOutcome
    /\ api_sent = <<>>
    /\ api_pc = "idle"

\* the variables of SpecDevices at rest: no Device instance
RestDevices ==
    /\ class_zones = <<>>
    /\ devices = <<>>
    /\ devices_impl = "entities"

\* the variables of SpecDeviceSpecial at rest: no device
RestDeviceSpecial ==
    /\ ds_zones = <<>>
    /\ ds_special = None
    /\ ds_backend = [special |-> None, targets |-> <<>>]
    /\ ds_posts = <<>>
    /\ ds_outcome = <<>>

\* no entry for the device in _cache_devices
NoCacheEntry == [present |-> FALSE, count |-> 0]

\* the variables of SpecStatus at rest: no call of get_device_status
RestStatus ==
    /\ st_impl = "device_manager"
    /\ st_mode = "LIVE"
    /\ st_cache = NoCacheEntry
    /\ st_pc = "idle"
    /\ st_requests = <<>>
    /\ st_errors = <<>>
    /\ st_outcome = "none"
    /\ st_live_up = TRUE
    /\ st_served = 0

\* the variables of SpecCompose at rest: no call of get_device
RestCompose ==
    /\ cg_pc = "idle"
    /\ cg_attempt = [outer |-> 0, inner |-> 0]
    /\ cg_logged = TRUE
    /\ cg_logins = 0
    /\ cg_invocations = <<>>
    /\ cg_refresh = TRUE
    /\ cg_err = None

\* DeviceManager._devices is None
NotDiscovered == [discovered |-> FALSE, list |-> <<>>]

\* the variables of SpecGetDevices at rest: no call of get_devices
RestGetDevices ==
    /\ gd_devices = NotDiscovered
    /\ gd_pc = [at |-> "idle", attempt |-> 0, refresh |-> TRUE]
    /\ gd_requests = <<>>
    /\ gd_outcome = "none"

\* the variables of the specifications of single functions, at rest
RestEarlier ==
    /\ RestEnvelope /\ RestSpecial /\ RestSetMode /\ RestZones /\ RestConsumption
    /\ RestAuth /\ RestRotation /\ RestDevices

RestLater == RestDeviceSpecial /\ RestStatus /\ RestCompose /\ RestGetDevices

RestPure == RestEarlier /\ RestLater

\* Client.__init__: no token, no expiry
Init ==
    /\ variant \in Variants
    /\ refresh_login \in BOOLEAN
    /\ clock = 0
    /\ access_token = None
    /\ token_expiration = NoTime
    /\ InitRest
    /\ RestPure

\* ------------------------------------------------------- fragments of actions
\* the call ends: _wrap returns ("returned") or lets e through ("raised");
\* the locals of the coroutines are gone
EndCall(c, how, e) ==
    /\ pc' = [pc EXCEPT ![c] = how]
    /\ err' = [err EXCEPT ![c] = e]
    /\ intent' = [intent EXCEPT ![c] = DatetimeMin]
    /\ tokRecv' = [tokRecv EXCEPT ![c] = 0]
    /\ sent' = [sent EXCEPT ![c] = NoRequest]
    /\ credBefore' = [credBefore EXCEPT ![c] = EmptySettings]

\* _wrap invoking fn: AquareaDeviceControl.post_device_operation_update, one
\* POST through AquareaAPIClient.request with the signed headers
InvokeFn(c) ==
    /\ pc' = [pc EXCEPT ![c] = "op"]
    /\ opCalls' = [opCalls EXCEPT ![c] = @ + 1]
    /\ sent' = [sent EXCEPT ![c] = RequestHeader(settings)]
    /\ intent' = [intent EXCEPT ![c] = DatetimeMin]
    /\ tokRecv' = [tokRecv EXCEPT ![c] = 0]
    /\ credBefore' = [credBefore EXCEPT ![c] = EmptySettings]
    /\ UNCHANGED err

\* the redundant-login test of Client.login
login_is_redundant(lastLogin, myIntent) == lastLogin > myIntent

\* Client.login with the lock just acquired: the redundant-login check, then
\* authenticate() up to its first request (GET /authorize)
LoginLocked(c, myIntent, rest) ==
    IF login_is_redundant(last_login, myIntent)
    THEN /\ login_lock' = 0
         /\ waiters' = rest
         /\ InvokeFn(c)
         /\ UNCHANGED authCount
    ELSE /\ login_lock' = c
         /\ waiters' = rest
         /\ pc' = [pc EXCEPT ![c] = "authorize"]
         /\ intent' = [intent EXCEPT ![c] = myIntent]
         /\ sent' = [sent EXCEPT ![c] = NoRequest]
         /\ authCount' = authCount + 1
         /\ credBefore' = [credBefore EXCEPT ![c] = settings]
         /\ UNCHANGED <<err, tokRecv, opCalls>>

\* Client.login from its first line to its first suspension
LoginEnter(c, now, again) ==
    /\ loginCalls' = [loginCalls EXCEPT ![c] = @ + 1]
    /\ relogins' = [relogins EXCEPT ![c] = IF again THEN @ + 1 ELSE @]
    /\ IF login_lock = 0 /\ waiters = <<>>
       THEN LoginLocked(c, now, waiters)
       ELSE /\ waiters' = Append(waiters, c)
            /\ pc' = [pc EXCEPT ![c] = "wait_lock"]
            /\ intent' = [intent EXCEPT ![c] = now]
            /\ sent' = [sent EXCEPT ![c] = NoRequest]
            /\ UNCHANGED <<login_lock, authCount, credBefore, err, tokRecv, opCalls>>

\* mutation of LoginRaise: _wrap swallows the exception of login()
LoginRaise_swallowed(c, e) ==
    /\ login_lock' = 0
    /\ EndCall(c, "returned", None)

\* mutation of LoginRaise: the exception of login() is lost on its way out
LoginRaise_error_lost(c, e) ==
    /\ login_lock' = 0
    /\ EndCall(c, "raised", None)

\* mutation of LoginRaise: login() without its finally clause
LoginRaise_lock_kept(c, e) ==
    /\ login_lock' = login_lock
    /\ EndCall(c, "raised", e)

\* login() raising e: the finally clause releases the lock and _wrap lets the
\* exception through (neither call of login() is inside the try)
LoginRaise(c, e) ==
    /\ login_lock' = 0
    /\ EndCall(c, "raised", e)

\* authenticate() goes on to its next request
AuthStep(c, p, received) ==
    /\ pc' = [pc EXCEPT ![c] = p]
    /\ tokRecv' = [tokRecv EXCEPT ![c] = received]
    /\ UNCHANGED <<login_lock, err, intent, credBefore>>

\* ------------------------------------------------------------------- actions
\* a caller calls a guarded operation: _wrap up to the first suspension
Call(c) ==
    /\ pc[c] = "idle"
    /\ calls[c] < MaxCalls
    /\ calls' = [calls EXCEPT ![c] = @ + 1]
    /\ IF IsLogged
       THEN /\ InvokeFn(c)
            /\ UNCHANGED <<loginCalls, relogins, lockVars, authCount>>
       ELSE LoginEnter(c, clock, FALSE)
    /\ UNCHANGED <<variant, refresh_login, clock, clientVars, settings, result, applied,
                   loginDone, auxVars>>

\* a waiter is woken with the lock free: lines 414-421 of Client.login
Acquire(c) ==
    /\ pc[c] = "wait_lock"
    /\ login_lock = 0
    /\ waiters # <<>>
    /\ Head(waiters) = c
    /\ LoginLocked(c, intent[c], Tail(waiters))
    /\ UNCHANGED <<variant, refresh_login, clock, clientVars, settings, result,
                   loginCalls, relogins, applied, calls, loginDone, auxVars>>

\* Authenticator._authorize answered: 302 to the redirect URI (silent login),
\* 302 to the login form, or any other status
AuthorizeResponse(c) ==
    /\ pc[c] = "authorize"
    /\ clock < MaxClock
    /\ clock' = clock + 1
    /\ \E r \in {"code", "form", "bad"} :
         CASE r = "code" -> AuthStep(c, "get_token", clock') /\ UNCHANGED sent
           [] r = "form" -> AuthStep(c, "authorize_redirect", tokRecv[c]) /\ UNCHANGED sent
           [] OTHER -> LoginRaise(c, ATTRIBUTE_ERROR)
    /\ UNCHANGED <<variant, refresh_login, clientVars, settings, waiters, result,
                   loginCalls, relogins, opCalls, applied, calls, authCount, loginDone,
                   auxVars>>

\* the step of Authenticator._login that follows each of its four requests
NextLoginStep(p) ==
    CASE p = "authorize_redirect" -> "login"
      [] p = "login" -> "login_callback"
      [] p = "login_callback" -> "login_redirect"
      [] OTHER -> "get_token"

\* one request of Authenticator._login answered, with the expected status or not
LoginStepResponse(c) ==
    /\ pc[c] \in {"authorize_redirect", "login", "login_callback", "login_redirect"}
    /\ clock < MaxClock
    /\ clock' = clock + 1
    /\ \E ok \in BOOLEAN :
         IF ok
         THEN /\ AuthStep(c, NextLoginStep(pc[c]),
                          IF pc[c] = "login_redirect" THEN clock' ELSE tokRecv[c])
              /\ UNCHANGED sent
         ELSE LoginRaise(c, ATTRIBUTE_ERROR)
    /\ UNCHANGED <<variant, refresh_login, clientVars, settings, waiters, result,
                   loginCalls, relogins, opCalls, applied, calls, authCount, loginDone,
                   auxVars>>

\* POST /oauth/token (grant_type=authorization_code) answered; on 200 the tokens
\* are stored and _retrieve_client_acc sends its signed POST
TokenResponse(c) ==
    /\ pc[c] = "get_token"
    /\ clock < MaxClock
    /\ clock' = clock + 1
    /\ \E r \in TokenResponses, ok \in BOOLEAN :
         IF ok
         THEN /\ settings' = set_token(settings, r, tokRecv[c])
              /\ AuthStep(c, "get_acc_client_id", 0)
              /\ sent' = [sent EXCEPT ![c] = RequestHeader(settings')]
         ELSE /\ LoginRaise(c, ATTRIBUTE_ERROR)
              /\ UNCHANGED settings
    /\ UNCHANGED <<variant, refresh_login, clientVars, waiters, result, loginCalls, relogins,
                   opCalls, applied, calls, authCount, loginDone, auxVars>>

\* POST /auth/v2/login answered: 200 with the client id, 401/4106 (a new app
\* version was published) or anything else.  After the 200, login() records the
\* login and sends the group listing.
ClientAccResponse(c) ==
    /\ pc[c] \in {"get_acc_client_id", "get_acc_client_id_retry"}
    /\ clock < MaxClock
    /\ clock' = clock + 1
    /\ \E r \in {"ok", "stale", "bad"}, id \in ClientIds :
         CASE r = "ok" ->
                /\ settings' = [settings EXCEPT !.clientId = id]
                /\ last_login' = clock'
                /\ access_token' = settings'.access_token
                /\ token_expiration' = settings'.expires_at
                /\ AuthStep(c, "groups", 0)
                /\ sent' = [sent EXCEPT ![c] = RequestHeader(settings')]
           [] r = "stale" /\ pc[c] = "get_acc_client_id" ->
                /\ AuthStep(c, "get_acc_client_id_retry", 0)
                /\ sent' = [sent EXCEPT ![c] = RequestHeader(settings)]
                /\ UNCHANGED <<settings, clientVars>>
           [] OTHER ->
                /\ LoginRaise(c, ATTRIBUTE_ERROR)
                /\ UNCHANGED <<settings, clientVars>>
    /\ UNCHANGED <<variant, refresh_login, waiters, result, loginCalls, relogins, opCalls, applied,
                   calls, authCount, loginDone, auxVars>>

\* Client._get_groups answered; login() returns or raises, its finally clause
\* releases the lock, and after a normal return _wrap invokes fn
GroupsResponse(c) ==
    /\ pc[c] = "groups"
    /\ clock < MaxClock
    /\ clock' = clock + 1
    /\ \E r \in {"ok", OTHER_API_ERROR, TRANSPORT_ERROR} :
         IF r = "ok"
         THEN /\ login_lock' = 0
              /\ loginDone' = clock'
              /\ InvokeFn(c)
         ELSE /\ LoginRaise(c, r)
              /\ UNCHANGED <<loginDone, opCalls>>
    /\ UNCHANGED <<variant, refresh_login, clientVars, settings, waiters, result,
                   loginCalls, relogins, applied, calls, authCount, auxVars>>

\* the request of fn answered.  The backend applies a control request exactly
\* when it answers without an error entry; a transport failure may hit before
\* or after the backend applied it.
OpResponse(c) ==
    /\ pc[c] = "op"
    /\ clock < MaxClock
    /\ clock' = clock + 1
    /\ \E r \in OpResponses, late \in BOOLEAN :
         LET e == request_raises(variant, r)
             handled == wrap_on_error(variant, refresh_login, e, opCalls[c])
         IN  /\ result' = [result EXCEPT ![c] = Append(@, e)]
             /\ applied' = [applied EXCEPT ![c] =
                               IF r = "ok" \/ (r = TRANSPORT_ERROR /\ late) THEN @ + 1 ELSE @]
             /\ IF r = "ok"
                THEN /\ EndCall(c, "returned", None)
                     /\ UNCHANGED <<loginCalls, relogins, lockVars, authCount, opCalls>>
                ELSE IF handled = "relogin"
                     THEN LoginEnter(c, clock', TRUE)
                     ELSE /\ EndCall(c, "raised",
                                     IF handled = "attribute_error" THEN ATTRIBUTE_ERROR ELSE e)
                          /\ UNCHANGED <<loginCalls, relogins, lockVars, authCount, opCalls>>
    /\ UNCHANGED <<variant, refresh_login, clientVars, settings, calls, loginDone,
                   auxVars>>

\* the caller has its result or its exception; it may call again
Finish(c) ==
    /\ pc[c] \in {"returned", "raised"}
    /\ pc' = [pc EXCEPT ![c] = "idle"]
    /\ err' = [err EXCEPT ![c] = None]
    /\ result' = [result EXCEPT ![c] = <<>>]
    /\ loginCalls' = [loginCalls EXCEPT ![c] = 0]
    /\ relogins' = [relogins EXCEPT ![c] = 0]
    /\ opCalls' = [opCalls EXCEPT ![c] = 0]
    /\ applied' = [applied EXCEPT ![c] = 0]
    /\ UNCHANGED <<variant, refresh_login, clock, clientVars, settings, lockVars, intent,
                   tokRecv, calls, sent, ghostVars, auxVars>>

\* time passes between calls, towards the recorded expiry of the token held
Tick ==
    /\ \A c \in Callers : pc[c] = "idle"
    /\ IsLogged
    /\ clock < MaxClock
    /\ clock' = clock + 1
    /\ UNCHANGED <<variant, refresh_login, clientVars, settings, lockVars, callVars,
                   ghostVars, auxVars>>

\* Authenticator.refresh_token called directly: it takes no lock; the issue
\* time is read before the request is sent
RefreshTokenCall(c) ==
    /\ pc[c] = "idle"
    /\ calls[c] < MaxCalls
    /\ calls' = [calls EXCEPT ![c] = @ + 1]
    /\ tokRecv' = [tokRecv EXCEPT ![c] = clock]
    /\ pc' = [pc EXCEPT ![c] = "refresh_token"]
    /\ UNCHANGED <<variant, refresh_login, clock, clientVars, settings, lockVars, intent,
                   err, result, loginCalls, relogins, opCalls, applied, sent, ghostVars,
                   auxVars>>

\* POST /oauth/token (grant_type=refresh_token) answered
RefreshTokenResponse(c) ==
    /\ pc[c] = "refresh_token"
    /\ clock < MaxClock
    /\ clock' = clock + 1
    /\ \E r \in TokenResponses, ok \in BOOLEAN :
         IF ok
         THEN /\ settings' = set_token(settings, r, tokRecv[c])
              /\ EndCall(c, "returned", None)
         ELSE /\ EndCall(c, "raised", ATTRIBUTE_ERROR)
              /\ UNCHANGED settings
    /\ UNCHANGED <<variant, refresh_login, clientVars, lockVars, result, loginCalls, relogins,
                   opCalls, applied, calls, authCount, loginDone, auxVars>>

\* ------------------------------------------------------------- specifications
\* guarded operations only
Next ==
    \/ \E c \in Callers : Call(c)
    \/ \E c \in Callers : Acquire(c)
    \/ \E c \in Callers : AuthorizeResponse(c)
    \/ \E c \in Callers : LoginStepResponse(c)
    \/ \E c \in Callers : TokenResponse(c)
    \/ \E c \in Callers : ClientAccResponse(c)
    \/ \E c \in Callers : GroupsResponse(c)
    \/ \E c \in Callers : OpResponse(c)
    \/ \E c \in Callers : Finish(c)
    \/ Tick

Spec == Init /\ [][Next]_vars

\* guarded operations and direct calls of refresh_token()
NextRefresh ==
    \/ Next
    \/ \E c \in Callers : RefreshTokenCall(c)
    \/ \E c \in Callers : RefreshTokenResponse(c)

\* the event loop runs a task that is ready and every request is answered
SpecLive == Spec /\ WF_vars(Next)

SpecRefresh == Init /\ [][NextRefresh]_vars

\* is_logged as a function of the session fields and the time: every
\* combination of a token (None, empty, held), an expiry (None or a time) and
\* a current time
InitIsLogged ==
    /\ variant = "core"
    /\ refresh_login = TRUE
    /\ clock \in 0..MaxExpiry
    /\ access_token \in {None, "", "tokA"}
    /\ token_expiration \in {NoTime} \cup (0..MaxExpiry)
    /\ InitRest
    /\ RestPure

\* the property is read
ReadIsLogged ==
    /\ logged_result = "unread"
    /\ logged_result' = IF IsLogged THEN "True" ELSE "False"
    /\ UNCHANGED <<variant, refresh_login, clock, clientVars, settings, lockVars, callVars,
                   ghostVars, pureVars>>

\* time passes before the next read
TimePasses ==
    /\ logged_result # "unread"
    /\ clock <= MaxExpiry
    /\ clock' = clock + 1
    /\ logged_result' = "unread"
    /\ UNCHANGED <<variant, refresh_login, clientVars, settings, lockVars, callVars,
                   ghostVars, pureVars>>

NextIsLogged == ReadIsLogged \/ TimePasses

SpecIsLogged == InitIsLogged /\ [][NextIsLogged]_vars

\* ------------------------------------------------------ envelope classification
MaxMessages == 2

\* the session model at rest, with a token held
SessionAtRest ==
    /\ variant = "decorators"
    /\ refresh_login = TRUE
    /\ clock = 0
    /\ access_token = "tokA"
    /\ token_expiration = NoTime
    /\ InitRest

sessionVars == <<variant, refresh_login, clock, clientVars, settings, lockVars, callVars,
                 ghostVars, logged_result>>

\* errorCode values of message entries
EnvelopeCodes == {INVALID_USERNAME_OR_PASSWORD, SESSION_CLOSED, OTHER_API_ERROR}

\* `"Token expires" in text` (case-sensitive substring test)
ContainsTokenExpires(text) == text \in {"Token expires soon", "Your Token expires"}

\* the elements a "message" value can hold: a dict with both keys, a dict
\* without "errorCode", a string
EnvelopeItems ==
    [kind : {"dict"}, errorCode : EnvelopeCodes, errorMessage : {"Token expires soon", "invalid"}]
    \cup [kind : {"dict_no_code"}, errorCode : {None}, errorMessage : {"invalid"}]
    \cup [kind : {"str"}, errorCode : {None},
          errorMessage : {"Token expires soon", MISSING_AUTHENTICATION_TOKEN}]

\* sequences over S of length n
RECURSIVE SeqsOfLen(_, _)
SeqsOfLen(S, n) ==
    IF n = 0 THEN {<<>>}
    ELSE {Append(q, x) : q \in SeqsOfLen(S, n - 1), x \in S}

\* JSON bodies: no "message" key, a list of up to MaxMessages elements, or a
\* single element that is not a list
EnvelopeBodies ==
    {[shape |-> "no_message", items |-> <<>>]}
    \cup {[shape |-> "list", items |-> q] :
             q \in UNION {SeqsOfLen(EnvelopeItems, n) : n \in 0..MaxMessages}}
    \cup {[shape |-> "bare", items |-> <<x>>] : x \in EnvelopeItems}

\* list(AuthenticationErrorCodes)
AuthenticationErrorCodes == {SESSION_CLOSED, INVALID_USERNAME_OR_PASSWORD, INVALID_CREDENTIALS}

\* AquareaAPIClient.look_for_errors on one element: the error appended,
\* "skip" for an element that is neither, "AttributeError" where the code
\* evaluates AuthenticationErrorCodes.TOKEN_EXPIRED
error_of_item(item) ==
    IF item.kind = "dict"
    THEN IF ContainsTokenExpires(item.errorMessage)
         THEN [kind |-> ATTRIBUTE_ERROR, error_code |-> None, error_message |-> None]
         ELSE [kind |-> "ApiError", error_code |-> item.errorCode,
               error_message |-> item.errorMessage]
    ELSE IF item.kind = "str"
    THEN IF ContainsTokenExpires(item.errorMessage)
         THEN [kind |-> ATTRIBUTE_ERROR, error_code |-> None, error_message |-> None]
         ELSE [kind |-> "ApiError", error_code |-> "unknown_error_code",
               error_message |-> item.errorMessage]
    ELSE [kind |-> "skip", error_code |-> None, error_message |-> None]

\* AquareaAPIClient.look_for_errors: the whole list is walked before anything
\* is returned, so the first element that raises ends it
RECURSIVE look_for_errors(_)
look_for_errors(messages) ==
    IF messages = <<>> THEN [raised |-> FALSE, errors |-> <<>>]
    ELSE LET e == error_of_item(Head(messages))
             rest == look_for_errors(Tail(messages))
         IN  IF e.kind = ATTRIBUTE_ERROR THEN [raised |-> TRUE, errors |-> <<>>]
             ELSE IF rest.raised THEN rest
             ELSE IF e.kind = "skip" THEN rest
             ELSE [raised |-> FALSE, errors |-> <<e>> \o rest.errors]

\* the tail of AquareaAPIClient.request for a JSON body: the first error found
\* is raised, as AuthenticationError when its code is a member of the enum
request_outcome(body, throw) ==
    IF ~throw
    THEN [kind |-> "return", error_code |-> None, error_message |-> None]
    ELSE LET found == look_for_errors(body.items)
         IN  IF found.raised
             THEN [kind |-> ATTRIBUTE_ERROR, error_code |-> None, error_message |-> None]
             ELSE IF found.errors = <<>>
             THEN [kind |-> "return", error_code |-> None, error_message |-> None]
             ELSE LET error == Head(found.errors)
                  IN  [kind |-> IF error.error_code \in AuthenticationErrorCodes
                                THEN "AuthenticationError" ELSE "ApiError",
                       error_code |-> error.error_code,
                       error_message |-> error.error_message]

\* a response with a JSON body arrives in request()
InitEnvelope ==
    /\ SessionAtRest
    /\ RestSpecial
    /\ RestSetMode
    /\ RestZones
    /\ RestConsumption
    /\ RestAuth
    /\ RestRotation
    /\ RestDevices
    /\ RestLater
    /\ data \in EnvelopeBodies
    /\ throw_on_error \in BOOLEAN
    /\ outcome = NoOutcome

\* request() classifies the body
Classify ==
    /\ outcome = NoOutcome
    /\ outcome' = request_outcome(data, throw_on_error)
    /\ UNCHANGED <<sessionVars, notEnvelope, data, throw_on_error>>

NextEnvelope == Classify

SpecEnvelope == InitEnvelope /\ [][NextEnvelope]_vars

\* ------------------------------------------------------------- special status
TempLow == 55
TempHigh == 60
CoolLow == 18
CoolHigh == 20
MaxDelta == 5
MaxSteps == 2

\* mutation of limit_range: the upper bound is not enforced
limit_range_unbounded_above(value, min_value, max_value) ==
    IF value < min_value THEN min_value ELSE value

\* util.limit_range
limit_range(value, min_value, max_value) ==
    IF value < min_value THEN min_value
    ELSE IF value > max_value THEN max_value
    ELSE value

\* zone.temperature_modifiers[status]
temperature_modifiers(z, status) == IF status = "ECO" THEN z.eco ELSE z.comfort

\* mutation of revert_target: the target is left as it is
revert_target_skipped(set, modifier, min_value, max_value) == set

\* the revert step for one target: `... if x_set is not None else None`
revert_target(set, modifier, min_value, max_value) ==
    IF set = NoTemp THEN NoTemp ELSE limit_range(set - modifier, min_value, max_value)

\* the apply step for one target
apply_target(set, modifier, min_value, max_value) ==
    IF set = NoTemp THEN NoTemp ELSE limit_range(set + modifier, min_value, max_value)

\* Device.__calculate_zone_special_status_update__
calculate_zone_special_status_update(z, current_status, new_status) ==
    LET cool_reverted ==
            IF current_status # None
            THEN revert_target(z.cool_set, temperature_modifiers(z, current_status).cool,
                               z.cool_min, z.cool_max)
            ELSE z.cool_set
        heat_reverted ==
            IF current_status # None
            THEN revert_target(z.heat_set, temperature_modifiers(z, current_status).heat,
                               z.heat_min, z.heat_max)
            ELSE z.heat_set
    IN  [cool_set |-> IF new_status # None
                      THEN apply_target(cool_reverted, temperature_modifiers(z, new_status).cool,
                                        z.cool_min, z.cool_max)
                      ELSE cool_reverted,
         heat_set |-> IF new_status # None
                      THEN apply_target(heat_reverted, temperature_modifiers(z, new_status).heat,
                                        z.heat_min, z.heat_max)
                      ELSE heat_reverted]

SpecialStatuses == {None, "ECO", "COMFORT"}

\* zones as the descriptor (cool_mode) and a status snapshot describe them:
\* targets within their ranges; "coolSet" is null or a temperature, whatever
\* cool_mode the descriptor of the zone got at discovery
ZoneSnapshots ==
    {[cool_mode |-> cm, heat_set |-> hs, heat_min |-> hmin, heat_max |-> hmax,
      cool_set |-> cs, cool_min |-> CoolLow, cool_max |-> CoolHigh,
      eco |-> [heat |-> eh, cool |-> 2], comfort |-> [heat |-> 2, cool |-> 0 - 2]] :
        cm \in BOOLEAN,
        hmin \in {TempLow, TempLow + 2}, hmax \in {TempHigh - 2, TempHigh},
        hs \in TempLow..TempHigh, cs \in {NoTemp} \cup (CoolLow..CoolHigh),
        eh \in {0 - MaxDelta, 0 - 2, MaxDelta}}

\* SpecialStatus.value, 0 for None
special_status_value(status) ==
    IF status = "ECO" THEN 1 ELSE IF status = "COMFORT" THEN 2 ELSE 0

\* the entry of "zoneStatus" in the body post_device_set_special_status
\* builds for one zone update: "coolSet" is there when cool_set is not None
special_status_body(status, zone_update) ==
    [specialStatus |-> special_status_value(status),
     keys |-> {"zoneId", "heatSet"}
                 \cup (IF zone_update.cool_set # NoTemp THEN {"coolSet"} ELSE {}),
     heatSet |-> zone_update.heat_set,
     coolSet |-> zone_update.cool_set]

InitSpecial ==
    /\ SessionAtRest
    /\ RestEnvelope
    /\ RestSetMode
    /\ RestZones
    /\ RestConsumption
    /\ RestAuth
    /\ RestRotation
    /\ RestDevices
    /\ RestLater
    /\ zone \in {z \in ZoneSnapshots : z.heat_min <= z.heat_set /\ z.heat_set <= z.heat_max}
    /\ special_status = None
    /\ update = NoUpdate
    /\ history = <<>>
    /\ original = [cool_set |-> zone.cool_set, heat_set |-> zone.heat_set]
    /\ special_request = NoSpecialRequest

\* Device.set_special_status: the update is computed and posted; the device
\* takes the posted targets and the new status
SetSpecialStatus(new_status) ==
    /\ Len(history) < MaxSteps
    /\ special_status # new_status
    /\ update' = calculate_zone_special_status_update(zone, special_status, new_status)
    /\ special_request' = special_status_body(new_status, update')
    /\ zone' = [zone EXCEPT !.cool_set = update'.cool_set, !.heat_set = update'.heat_set]
    /\ special_status' = new_status
    /\ history' = Append(history, new_status)
    /\ UNCHANGED <<sessionVars, notSpecial, original>>

NextSpecial == \E new_status \in SpecialStatuses : SetSpecialStatus(new_status)

SpecSpecial == InitSpecial /\ [][NextSpecial]_vars

\* -------------------------------------------------------------------- set_mode
NumZones == 2

\* zone_id = None: every zone is targeted
AllZones == 0

\* OperationStatus
OperationStatuses == {"ON", "OFF", "UNKNOWN"}
\* UpdateOperationMode
UpdateOperationModes == {"OFF", "HEAT", "COOL", "AUTO"}

\* the `zones` dict set_mode builds: targeted zones get the status the mode
\* implies, the others keep their current one
set_mode_zones(dev, mode, zone_id) ==
    [z \in DOMAIN dev.zones |->
        IF zone_id = AllZones \/ z = zone_id
        THEN IF mode = "OFF" THEN "OFF" ELSE "ON"
        ELSE dev.zones[z]]

\* tank_off; evaluated only when the device has a tank object
tank_off(dev) == ~dev.has_tank \/ (dev.has_tank /\ dev.tank = "OFF")

\* mutation of set_mode_operation_status: the zones are not looked at
set_mode_operation_status_no_zones(mode, tankOff, zones) ==
    IF mode = "OFF" /\ tankOff THEN "OFF" ELSE "ON"

\* the device-level operation_status of set_mode
set_mode_operation_status(mode, tankOff, zones) ==
    IF mode = "OFF" /\ tankOff /\ \A z \in DOMAIN zones : zones[z] = "OFF"
    THEN "OFF"
    ELSE "ON"

\* a device as built from its info and status: has_tank with a tank status, or
\* has_tank without any tank status entry (then _tank stays None)
InitSetMode ==
    /\ SessionAtRest
    /\ RestEnvelope
    /\ RestSpecial
    /\ RestZones
    /\ RestConsumption
    /\ RestAuth
    /\ RestRotation
    /\ RestDevices
    /\ RestLater
    /\ \E zs \in [1..NumZones -> OperationStatuses], ht \in BOOLEAN,
          t \in OperationStatuses \cup {None} :
          /\ (~ht => t = None)
          /\ device = [zones |-> zs, has_tank |-> ht, tank |-> t]
    /\ posted = NotPosted

\* DeviceImpl.set_mode up to the call of post_device_operation_update.  With
\* has_tank and no tank object, self.tank.operation_status raises
\* AttributeError and nothing is posted.
SetMode(mode, zone_id) ==
    /\ posted = NotPosted
    /\ posted' =
          IF device.has_tank /\ device.tank = None
          THEN [state |-> ATTRIBUTE_ERROR, mode |-> mode, zone_id |-> zone_id,
                zones |-> <<>>, operation_status |-> None]
          ELSE LET zones == set_mode_zones(device, mode, zone_id)
               IN  [state |-> "posted", mode |-> mode, zone_id |-> zone_id,
                    zones |-> zones,
                    operation_status |->
                        set_mode_operation_status(mode, tank_off(device), zones)]
    /\ UNCHANGED <<sessionVars, notSetMode, device>>

NextSetMode ==
    \E mode \in UpdateOperationModes, zone_id \in AllZones..(NumZones + 1) :
        SetMode(mode, zone_id)

SpecSetMode == InitSetMode /\ [][NextSetMode]_vars

\* ------------------------------------------------------------------ zone view
MaxZoneEntries == 2

\* DeviceZoneInfo values: the zone id and the sensor the zone uses
ZoneDescriptors == [zone_id : 1..NumZones, zone_sensor : {"INTERNAL", "EXTERNAL"}]

\* DeviceZoneStatus values
ZoneStatusEntries ==
    [present : {TRUE}, zone_id : 1..NumZones, operation_status : {"ON", "OFF"},
     temperature : {21}, heat_set : {NoTemp, 40}, heat_min : {20}, heat_max : {55},
     cool_set : {NoTemp}, cool_min : {NoTemp}, cool_max : {NoTemp}]

\* the _status of a DeviceZone built without a snapshot entry: None
NoZoneStatus ==
    [present |-> FALSE, zone_id |-> 0, operation_status |-> None, temperature |-> NoTemp,
     heat_set |-> NoTemp, heat_min |-> NoTemp, heat_max |-> NoTemp,
     cool_set |-> NoTemp, cool_min |-> NoTemp, cool_max |-> NoTemp]

\* next(filter(lambda z: z.zone_id == zone_id, self._status.zones), None)
RECURSIVE find_zone_status(_, _)
find_zone_status(entries, zone_id) ==
    IF entries = <<>> THEN NoZoneStatus
    ELSE IF Head(entries).zone_id = zone_id THEN Head(entries)
    ELSE find_zone_status(Tail(entries), zone_id)

\* mutation of zone_getters: without a status entry the operation status is
\* UNKNOWN and the temperature is absent
zone_getters_unknown_default(status) ==
    [state |-> "ok",
     operation_status |-> IF status.present THEN status.operation_status ELSE "UNKNOWN",
     temperature |-> IF status.present THEN status.temperature ELSE NoTemp,
     heat_target_temperature |-> IF status.present THEN status.heat_set ELSE NoTemp,
     cool_target_temperature |-> IF status.present THEN status.cool_set ELSE NoTemp,
     heat_min |-> IF status.present THEN status.heat_min ELSE NoTemp,
     heat_max |-> IF status.present THEN status.heat_max ELSE NoTemp,
     cool_min |-> IF status.present THEN status.cool_min ELSE NoTemp,
     cool_max |-> IF status.present THEN status.cool_max ELSE NoTemp]

\* DeviceZone.__init__ followed by the getters of the zone: each one is
\* `self._status.x if self._status else <default>`
zone_getters(status) ==
    [state |-> "ok",
     operation_status |-> IF status.present THEN status.operation_status ELSE "OFF",
     temperature |-> IF status.present THEN status.temperature ELSE 0,
     heat_target_temperature |-> IF status.present THEN status.heat_set ELSE NoTemp,
     cool_target_temperature |-> IF status.present THEN status.cool_set ELSE NoTemp,
     heat_min |-> IF status.present THEN status.heat_min ELSE NoTemp,
     heat_max |-> IF status.present THEN status.heat_max ELSE NoTemp,
     cool_min |-> IF status.present THEN status.cool_min ELSE NoTemp,
     cool_max |-> IF status.present THEN status.cool_max ELSE NoTemp]

\* a zone id no descriptor names
NotBuilt ==
    [state |-> "not_built", operation_status |-> None, temperature |-> NoTemp,
     heat_target_temperature |-> NoTemp, cool_target_temperature |-> NoTemp,
     heat_min |-> NoTemp, heat_max |-> NoTemp, cool_min |-> NoTemp, cool_max |-> NoTemp]

\* Device.__build_zones__: one DeviceZone per descriptor, stored under its
\* zone id (a later descriptor with the same id replaces the earlier one)
RECURSIVE build_zones(_, _, _)
build_zones(infos, entries, acc) ==
    IF infos = <<>> THEN acc
    ELSE build_zones(Tail(infos), entries,
                     [acc EXCEPT ![Head(infos).zone_id] =
                         zone_getters(find_zone_status(entries, Head(infos).zone_id))])

\* a device about to be built from its descriptors and a status snapshot
InitZones ==
    /\ SessionAtRest
    /\ RestEnvelope
    /\ RestSpecial
    /\ RestSetMode
    /\ RestConsumption
    /\ RestAuth
    /\ RestRotation
    /\ RestDevices
    /\ RestLater
    /\ zones_info \in UNION {SeqsOfLen(ZoneDescriptors, n) : n \in 0..NumZones}
    /\ status_zones \in UNION {SeqsOfLen(ZoneStatusEntries, n) : n \in 0..MaxZoneEntries}
    /\ zone_view = <<>>

\* Device.__init__: the zones are built, then read
BuildZones ==
    /\ zone_view = <<>>
    /\ zone_view' = build_zones(zones_info, status_zones, [z \in 1..NumZones |-> NotBuilt])
    /\ UNCHANGED <<sessionVars, notZones, zones_info, status_zones>>

NextZones == BuildZones

SpecZones == InitZones /\ [][NextZones]_vars

\* ------------------------------------------------------- consumption refresh
NumRefreshers == 2
MaxRefreshes == 2
MaxDates == 2

\* the tasks that call refresh_data on one device
Refreshers == 1..NumRefreshers

\* the two DeviceImpl classes of the library
DeviceImpls == {"entities", "core"}

\* what the backend answers to a consumption request: a history list whose
\* items carry a date string, a history list whose items carry a number as
\* dataTime, a body without data, an error entry, no answer, or a body that
\* is not JSON
ConsumptionAnswers ==
    {"items", "untyped_items", "empty", OTHER_API_ERROR, SESSION_CLOSED, TOKEN_EXPIRES,
     TRANSPORT_ERROR, "not_json"}

TYPE_ERROR == "TypeError"
JSON_ERROR == "JSONDecodeError"

\* what `await request(...)` followed by `await response.json()` raises for
\* the answer, None if nothing
consumption_request_raises(v, answer) ==
    IF answer \in {"items", "untyped_items", "empty"} THEN None
    ELSE IF answer = "not_json" THEN JSON_ERROR
    ELSE request_raises(v, answer)

Returned(x) == [returned |-> x, raised |-> None]
Raised(x) == [returned |-> None, raised |-> x]

\* AquareaConsumptionManager.get_device_consumption with the handler for
\* Exception left out
manager_get_device_consumption_api_errors_only(answer) ==
    LET e == consumption_request_raises("decorators", answer)
    IN  IF IsApiError(e) THEN Returned(None)
        ELSE IF e # None THEN Raised(e)
        ELSE IF answer = "empty" THEN Returned(None)
        ELSE Returned(answer)

\* AquareaConsumptionManager.get_device_consumption
manager_get_device_consumption(answer) ==
    LET e == consumption_request_raises("decorators", answer)
    IN  IF IsApiError(e) THEN Returned(None)        \* except (ApiError, AuthenticationError)
        ELSE IF e # None THEN Returned(None)        \* except Exception
        ELSE IF answer = "empty" THEN Returned(None)
        ELSE Returned(answer)

\* Client.get_device_consumption of core.py: no handler; a body without
\* dateData fails in `date_data.get("dateData")[0]`
core_get_device_consumption(answer) ==
    LET e == consumption_request_raises("core", answer)
    IN  IF e # None THEN Raised(e)
        ELSE IF answer = "empty" THEN Raised(TYPE_ERROR)
        ELSE Returned(answer)

\* self._client.get_device_consumption: the client of entities.DeviceImpl
\* hands the call to its consumption manager
client_get_device_consumption(impl, answer) ==
    IF impl = "entities" THEN manager_get_device_consumption(answer)
    ELSE core_get_device_consumption(answer)

\* asyncio.Lock.locked() with the test left out
locked_never(lock) == FALSE

\* `if self._consumption_refresh_lock.locked(): return`
locked(lock) == lock # 0

\* `finally: self._consumption_refresh_lock.release()`
release(lock) == 0

\* no consumption request answered yet in this refresh_data call
NoRetrieval == [answer |-> None, returned |-> None, raised |-> None]

\* one device, no refresh_data call made yet
InitConsumption ==
    /\ SessionAtRest
    /\ RestEnvelope
    /\ RestSpecial
    /\ RestSetMode
    /\ RestZones
    /\ RestAuth
    /\ RestRotation
    /\ RestDevices
    /\ RestLater
    /\ device_impl \in DeviceImpls
    /\ refresh_enabled \in BOOLEAN
    /\ consumption_refresh_lock = 0
    /\ last_consumption_refresh = None
    /\ device_status = 0
    /\ rpc = [r \in Refreshers |-> "idle"]
    /\ refreshes = [r \in Refreshers |-> 0]
    /\ installed = [r \in Refreshers |-> 0]
    /\ requested = [r \in Refreshers |-> 0]
    /\ skipped = [r \in Refreshers |-> FALSE]
    /\ retrieval = [r \in Refreshers |-> NoRetrieval]
    /\ rerr = [r \in Refreshers |-> None]
    /\ dates_left = 0

\* refresh_data up to `await self._client.get_device_status(...)`
RefreshData(r) ==
    /\ rpc[r] \in {"idle", "done", "raised"}
    /\ refreshes[r] < MaxRefreshes
    /\ rpc' = [rpc EXCEPT ![r] = "get_device_status"]
    /\ refreshes' = [refreshes EXCEPT ![r] = @ + 1]
    /\ installed' = [installed EXCEPT ![r] = 0]
    /\ requested' = [requested EXCEPT ![r] = 0]
    /\ skipped' = [skipped EXCEPT ![r] = FALSE]
    /\ retrieval' = [retrieval EXCEPT ![r] = NoRetrieval]
    /\ rerr' = [rerr EXCEPT ![r] = None]
    /\ UNCHANGED <<sessionVars, notConsumption, device_impl, refresh_enabled,
                   consumption_refresh_lock, last_consumption_refresh, device_status,
                   dates_left>>

\* refresh_data ends: it returns or lets e through
RefreshEnds(r, e) ==
    /\ rpc' = [rpc EXCEPT ![r] = IF e = None THEN "done" ELSE "raised"]
    /\ rerr' = [rerr EXCEPT ![r] = e]

\* get_device_status raised: refresh_data lets the error through
StatusFails(r) ==
    /\ rpc[r] = "get_device_status"
    /\ RefreshEnds(r, TRANSPORT_ERROR)
    /\ UNCHANGED <<sessionVars, notConsumption, device_impl, refresh_enabled,
                   consumption_refresh_lock, last_consumption_refresh, device_status,
                   refreshes, installed, requested, skipped, retrieval, dates_left>>

\* get_device_status returned: the snapshot is stored, then
\* __refresh_consumption__ runs up to its first await or to its end.  `due`:
\* the interval has elapsed or the month has no data (entities.py), the data is
\* not fresh (core.py); n: the dates core.py has to fetch
StatusResponse(r) ==
    /\ rpc[r] = "get_device_status"
    /\ device_status' = device_status + 1
    /\ installed' = [installed EXCEPT ![r] = device_status + 1]
    /\ \E due \in BOOLEAN, n \in 0..MaxDates :
         LET need == last_consumption_refresh = None \/ due
         IN  IF ~refresh_enabled
             THEN /\ RefreshEnds(r, None)
                  /\ UNCHANGED <<consumption_refresh_lock, last_consumption_refresh,
                                 requested, skipped, dates_left>>
             ELSE IF locked(consumption_refresh_lock)
             THEN /\ RefreshEnds(r, None)
                  /\ skipped' = [skipped EXCEPT ![r] = TRUE]
                  /\ UNCHANGED <<consumption_refresh_lock, last_consumption_refresh,
                                 requested, dates_left>>
             ELSE IF ~need
             THEN \* acquired, nothing to fetch, released by the finally clause
                  /\ RefreshEnds(r, None)
                  /\ consumption_refresh_lock' = release(r)
                  /\ UNCHANGED <<last_consumption_refresh, requested, skipped, dates_left>>
             ELSE IF device_impl = "core" /\ n = 0
             THEN \* every date is skipped by the loop
                  /\ RefreshEnds(r, None)
                  /\ consumption_refresh_lock' = release(r)
                  /\ last_consumption_refresh' = "set"
                  /\ UNCHANGED <<requested, skipped, dates_left>>
             ELSE /\ consumption_refresh_lock' = r
                  /\ rpc' = [rpc EXCEPT ![r] = "get_device_consumption"]
                  /\ requested' = [requested EXCEPT ![r] = @ + 1]
                  /\ dates_left' = IF device_impl = "core" THEN n ELSE 1
                  /\ UNCHANGED <<last_consumption_refresh, skipped, rerr>>
    /\ UNCHANGED <<sessionVars, notConsumption, device_impl, refresh_enabled, refreshes,
                   retrieval>>

\* get_device_consumption ended: the rest of the try block, then the finally
\* clause
ConsumptionResponse(r) ==
    /\ rpc[r] = "get_device_consumption"
    /\ \E answer \in ConsumptionAnswers :
         LET res == client_get_device_consumption(device_impl, answer)
         IN  /\ retrieval' = [retrieval EXCEPT ![r] =
                                 [answer |-> answer, returned |-> res.returned,
                                  raised |-> res.raised]]
             /\ IF res.raised # None
                THEN /\ RefreshEnds(r, res.raised)
                     /\ consumption_refresh_lock' = release(consumption_refresh_lock)
                     /\ dates_left' = 0
                     /\ UNCHANGED <<last_consumption_refresh, requested>>
                ELSE IF device_impl = "core"
                THEN \* the value is stored; the loop goes on
                     /\ dates_left' = dates_left - 1
                     /\ IF dates_left = 1
                        THEN /\ RefreshEnds(r, None)
                             /\ last_consumption_refresh' = "set"
                             /\ consumption_refresh_lock' = release(consumption_refresh_lock)
                             /\ UNCHANGED requested
                        ELSE /\ requested' = [requested EXCEPT ![r] = @ + 1]
                             /\ UNCHANGED <<rpc, rerr, last_consumption_refresh,
                                            consumption_refresh_lock>>
                ELSE IF res.returned = None
                THEN \* `if consumption_list:` is false: a warning
                     /\ RefreshEnds(r, None)
                     /\ consumption_refresh_lock' = release(consumption_refresh_lock)
                     /\ dates_left' = 0
                     /\ UNCHANGED <<last_consumption_refresh, requested>>
                ELSE IF res.returned = "untyped_items"
                THEN \* strptime raises TypeError, which `except ValueError` lets through
                     /\ RefreshEnds(r, TYPE_ERROR)
                     /\ consumption_refresh_lock' = release(consumption_refresh_lock)
                     /\ dates_left' = 0
                     /\ UNCHANGED <<last_consumption_refresh, requested>>
                ELSE /\ RefreshEnds(r, None)
                     /\ last_consumption_refresh' = "set"
                     /\ consumption_refresh_lock' = release(consumption_refresh_lock)
                     /\ dates_left' = 0
                     /\ UNCHANGED requested
    /\ UNCHANGED <<sessionVars, notConsumption, device_impl, refresh_enabled, device_status,
                   refreshes, installed, skipped>>

NextConsumption ==
    \E r \in Refreshers :
        \/ RefreshData(r)
        \/ StatusFails(r)
        \/ StatusResponse(r)
        \/ ConsumptionResponse(r)

SpecConsumption == InitConsumption /\ [][NextConsumption]_vars

\* -------------------------------------------------------------- Authenticator
MaxAuthClock == 8
MaxAuthRuns == 2

\* the local clock is set back by FoldLen at time FoldAt (end of daylight
\* saving time); a process whose zone is UTC sees no such change
FoldAt == 3
FoldLen == 2
LocalZones == {"utc", "dst"}

\* dt.datetime.now(): the naive local time at time t
now_local(tz, t) == IF tz = "dst" /\ t < FoldAt THEN t + FoldLen ELSE t

\* time.mktime(now.timetuple()): a time whose local time is the tuple given.
\* The tuple of a naive datetime has tm_isdst = -1, so for a local time that
\* occurs twice the C library may return either of the two.
mktime(tz, tuple) == {t \in 0..(MaxAuthClock + FoldLen) : now_local(tz, t) = tuple}

\* the values unix_time_token_received can take at time t
mktime_now(tz, t) == mktime(tz, now_local(tz, t))

\* a key the JSON body of a request does not have
Absent == "absent"

\* the requests of the choreography: the step (the name check_response is
\* given) and the fields of the body the token endpoint reads
AuthRequest(step, grant, token, scope) ==
    [step |-> step, grant_type |-> grant, refresh_token |-> token, scope |-> scope]

PlainRequest(step) == AuthRequest(step, Absent, Absent, Absent)

\* _request_new_token: the body of POST /oauth/token
NewTokenRequest == AuthRequest("get_token", "authorization_code", Absent, "openid")

\* refresh_token: the body of POST /oauth/token has scope, client_id and
\* grant_type
RefreshTokenRequest(s) == AuthRequest("refresh_token", "refresh_token", Absent, s.scope)

\* answers: the HTTP status, the code of a 401 body, where a 302 points
AuthAnswer(status, code, location) == [status |-> status, code |-> code, location |-> location]

AuthAnswers ==
    {AuthAnswer(200, 0, None), AuthAnswer(302, 0, "redirect_uri"),
     AuthAnswer(302, 0, "login_form"), AuthAnswer(401, 4106, None),
     AuthAnswer(401, 0, None), AuthAnswer(500, 0, None)}

\* the status each step hands to check_response
expected_status(step) ==
    CASE step = "authorize" -> 302
      [] step = "authorize_redirect" -> 200
      [] step = "login" -> 200
      [] step = "login_callback" -> 302
      [] step = "login_redirect" -> 302
      [] step = "get_token" -> 200
      [] step = "get_acc_client_id" -> 200
      [] OTHER -> 200

\* check_response: what it raises, None if nothing.  The exception it builds
\* is AuthenticationError(AuthenticationErrorCodes.API_ERROR, ...), and the
\* enum has no member API_ERROR
check_response(status, expected) ==
    IF status # expected THEN ATTRIBUTE_ERROR ELSE None

\* has_new_version_been_published
has_new_version_been_published(answer) == answer.status = 401 /\ answer.code = 4106

\* mutation of client_acc_repeat: the staleness test stands in a loop
client_acc_repeat_again(attempt, answer) == has_new_version_been_published(answer)

\* _retrieve_client_acc: the POST is repeated when the answer to the first
\* one says a new version has been published (an `if`, not a loop)
client_acc_repeat(attempt, answer) ==
    attempt = 1 /\ has_new_version_been_published(answer)

\* the step of _login that follows each of its requests
next_login_step(step) ==
    CASE step = "authorize_redirect" -> "login"
      [] step = "login" -> "login_callback"
      [] step = "login_callback" -> "login_redirect"
      [] OTHER -> "get_token"

\* the client-id POSTs among the first n requests sent
RECURSIVE client_acc_posts(_, _)
client_acc_posts(requests, n) ==
    IF n = 0 THEN 0
    ELSE client_acc_posts(requests, n - 1)
         + (IF requests[n].step = "get_acc_client_id" THEN 1 ELSE 0)

\* a client with its Authenticator, nothing sent yet
InitAuth ==
    /\ SessionAtRest
    /\ RestEnvelope
    /\ RestSpecial
    /\ RestSetMode
    /\ RestZones
    /\ RestConsumption
    /\ RestRotation
    /\ RestDevices
    /\ RestLater
    /\ auth_pc = "idle"
    /\ auth_sent = <<>>
    /\ auth_answers = <<>>
    /\ auth_settings = EmptySettings
    /\ auth_err = None
    /\ version_refreshes = 0
    /\ auth_now = 0
    /\ auth_stamp = 0
    /\ server_expiry = NoTime
    /\ local_zone \in LocalZones
    /\ client_session = NoSession
    /\ session_server_expiry = NoTime
    /\ auth_runs = 0

\* a request is sent and awaited
AuthSend(request) ==
    /\ auth_sent' = Append(auth_sent, request)
    /\ auth_pc' = request.step

\* the answer to the request awaited arrives
AuthReceive(answer) ==
    /\ auth_now < MaxAuthClock
    /\ auth_now' = auth_now + 1
    /\ auth_answers' = Append(auth_answers, answer)

\* the run ends by raising e
AuthRaise(e) ==
    /\ auth_pc' = "raised"
    /\ auth_err' = e
    /\ UNCHANGED auth_sent

\* _request_new_token up to its await: the stamp, then POST /oauth/token
request_new_token ==
    /\ auth_stamp' \in mktime_now(local_zone, auth_now')
    /\ AuthSend(NewTokenRequest)

\* login() calls authenticate(): up to the await of GET /authorize
authenticate ==
    /\ auth_pc = "idle"
    /\ auth_runs < MaxAuthRuns
    /\ auth_runs' = auth_runs + 1
    /\ auth_sent' = <<PlainRequest("authorize")>>
    /\ auth_answers' = <<>>
    /\ auth_pc' = "authorize"
    /\ auth_err' = None
    /\ version_refreshes' = 0
    /\ UNCHANGED <<sessionVars, notAuth, auth_settings, auth_now, auth_stamp, server_expiry,
                   local_zone, client_session, session_server_expiry>>

\* _authorize answered
authorize_answered ==
    /\ auth_pc = "authorize"
    /\ \E a \in AuthAnswers :
         /\ AuthReceive(a)
         /\ version_refreshes' =
               IF has_new_version_been_published(a) THEN version_refreshes + 1
               ELSE version_refreshes
         /\ IF check_response(a.status, expected_status("authorize")) # None
            THEN /\ AuthRaise(check_response(a.status, expected_status("authorize")))
                 /\ UNCHANGED auth_stamp
            ELSE IF a.location = "redirect_uri"
            THEN request_new_token /\ UNCHANGED auth_err
            ELSE AuthSend(PlainRequest("authorize_redirect")) /\ UNCHANGED <<auth_err, auth_stamp>>
    /\ UNCHANGED <<sessionVars, notAuth, auth_settings, server_expiry, local_zone,
                   client_session, session_server_expiry, auth_runs>>

\* one of the four requests of _login answered
login_answered ==
    /\ auth_pc \in {"authorize_redirect", "login", "login_callback", "login_redirect"}
    /\ \E a \in AuthAnswers :
         /\ AuthReceive(a)
         /\ IF check_response(a.status, expected_status(auth_pc)) # None
            THEN /\ AuthRaise(check_response(a.status, expected_status(auth_pc)))
                 /\ UNCHANGED auth_stamp
            ELSE IF next_login_step(auth_pc) = "get_token"
            THEN request_new_token /\ UNCHANGED auth_err
            ELSE /\ AuthSend(PlainRequest(next_login_step(auth_pc)))
                 /\ UNCHANGED <<auth_err, auth_stamp>>
    /\ UNCHANGED <<sessionVars, notAuth, auth_settings, version_refreshes, server_expiry,
                   local_zone, client_session, session_server_expiry, auth_runs>>

\* the token endpoint answered; with a 200 it issued the token at some time
\* between the sending of the request and the arrival of the answer
token_issued(r) ==
    /\ auth_settings' = set_token(auth_settings, r, auth_stamp)
    /\ \E issued \in auth_now..(auth_now + 1) : server_expiry' = issued + r.expires_in

\* _request_new_token answered; after _set_token, _retrieve_client_acc sends
\* its POST
request_new_token_answered ==
    /\ auth_pc = "get_token"
    /\ \E a \in AuthAnswers, r \in TokenResponses :
         /\ AuthReceive(a)
         /\ IF check_response(a.status, expected_status("get_token")) # None
            THEN /\ AuthRaise(check_response(a.status, expected_status("get_token")))
                 /\ UNCHANGED <<auth_settings, server_expiry>>
            ELSE /\ token_issued(r)
                 /\ AuthSend(PlainRequest("get_acc_client_id"))
                 /\ UNCHANGED auth_err
    /\ UNCHANGED <<sessionVars, notAuth, version_refreshes, auth_stamp, local_zone,
                   client_session, session_server_expiry, auth_runs>>

\* a client-id POST answered; after a normal return of authenticate(),
\* login() copies the token and its expiry (core.py 423-425)
retrieve_client_acc_answered ==
    /\ auth_pc = "get_acc_client_id"
    /\ \E a \in AuthAnswers, id \in ClientIds :
         /\ AuthReceive(a)
         /\ IF client_acc_repeat(client_acc_posts(auth_sent, Len(auth_sent)), a)
            THEN /\ version_refreshes' = version_refreshes + 1
                 /\ AuthSend(PlainRequest("get_acc_client_id"))
                 /\ UNCHANGED <<auth_err, auth_settings, client_session,
                                session_server_expiry>>
            ELSE IF check_response(a.status, expected_status("get_acc_client_id")) # None
            THEN /\ AuthRaise(check_response(a.status, expected_status("get_acc_client_id")))
                 /\ UNCHANGED <<version_refreshes, auth_settings, client_session,
                                session_server_expiry>>
            ELSE /\ auth_settings' = [auth_settings EXCEPT !.clientId = id]
                 /\ client_session' = [access_token |-> auth_settings.access_token,
                                       token_expiration |-> auth_settings.expires_at]
                 /\ session_server_expiry' = server_expiry
                 /\ auth_pc' = "done"
                 /\ UNCHANGED <<auth_sent, auth_err, version_refreshes>>
    /\ UNCHANGED <<sessionVars, notAuth, auth_stamp, server_expiry, local_zone, auth_runs>>

\* refresh_token() up to its await
refresh_token ==
    /\ auth_pc = "idle"
    /\ auth_runs < MaxAuthRuns
    /\ auth_runs' = auth_runs + 1
    /\ auth_stamp' \in mktime_now(local_zone, auth_now)
    /\ auth_sent' = <<RefreshTokenRequest(auth_settings)>>
    /\ auth_answers' = <<>>
    /\ auth_pc' = "refresh_token"
    /\ auth_err' = None
    /\ version_refreshes' = 0
    /\ UNCHANGED <<sessionVars, notAuth, auth_settings, auth_now, server_expiry, local_zone,
                   client_session, session_server_expiry>>

\* refresh_token() answered
refresh_token_answered ==
    /\ auth_pc = "refresh_token"
    /\ \E a \in AuthAnswers, r \in TokenResponses :
         /\ AuthReceive(a)
         /\ IF check_response(a.status, expected_status("refresh_token")) # None
            THEN /\ AuthRaise(check_response(a.status, expected_status("refresh_token")))
                 /\ UNCHANGED <<auth_settings, server_expiry>>
            ELSE /\ token_issued(r)
                 /\ auth_pc' = "done"
                 /\ UNCHANGED <<auth_sent, auth_err>>
    /\ UNCHANGED <<sessionVars, notAuth, version_refreshes, auth_stamp, local_zone,
                   client_session, session_server_expiry, auth_runs>>

\* the caller has the outcome of the run
auth_returns ==
    /\ auth_pc \in {"done", "raised"}
    /\ auth_pc' = "idle"
    /\ UNCHANGED <<sessionVars, notAuth, auth_sent, auth_answers, auth_settings, auth_err,
                   version_refreshes, auth_now, auth_stamp, server_expiry, local_zone,
                   client_session, session_server_expiry, auth_runs>>

\* time passes between two runs
auth_time_passes ==
    /\ auth_pc = "idle"
    /\ auth_now < MaxAuthClock
    /\ auth_now' = auth_now + 1
    /\ UNCHANGED <<sessionVars, notAuth, auth_pc, auth_sent, auth_answers, auth_settings,
                   auth_err, version_refreshes, auth_stamp, server_expiry, local_zone,
                   client_session, session_server_expiry, auth_runs>>

NextAuth ==
    \/ authenticate
    \/ authorize_answered
    \/ login_answered
    \/ request_new_token_answered
    \/ retrieve_client_acc_answered
    \/ refresh_token
    \/ refresh_token_answered
    \/ auth_returns
    \/ auth_time_passes

SpecAuth == InitAuth /\ [][NextAuth]_vars

\* ------------------------------------------------------------- token rotation
MaxRequests == 2
MaxEmbeddedExpiry == 2

VALUE_ERROR == "ValueError"

\* the format request() parses data["accessToken"]["expires"] with, and a
\* format with fractional seconds
ExpiresFormat == "%Y-%m-%dT%H:%M:%S%z"
ExpiresFormats == {ExpiresFormat, "%Y-%m-%dT%H:%M:%S.%f%z"}

\* data["accessToken"]: absent, with "token" only, or with "token" and
\* "expires" (a text in one of the formats, denoting a time)
EmbeddedTokens ==
    {NoEmbedded}
    \cup [keys : {"token"}, token : {"tokB", "tokC"}, format : {None}, time : {NoTime}]
    \cup [keys : {"token_expires"}, token : {"tokB", "tokC"}, format : ExpiresFormats,
          time : 1..MaxEmbeddedExpiry]

\* the bodies of the responses: not JSON, or JSON with or without an embedded
\* token and with or without an error message
RotationBodies ==
    {[json |-> FALSE, accessToken |-> NoEmbedded, items |-> <<>>]}
    \cup [json : {TRUE}, accessToken : EmbeddedTokens,
          items : {<<>>, <<[kind |-> "dict", errorCode |-> OTHER_API_ERROR,
                            errorMessage |-> "invalid"]>>}]

\* AquareaAPIClient.__contains_valid_token
contains_valid_token(body) == body.accessToken.keys = "token_expires"

\* dt.datetime.strptime(text, "%Y-%m-%dT%H:%M:%S%z"): the time the text
\* denotes, or ValueError for a text that is not in that format
strptime(embedded) ==
    IF embedded.format = ExpiresFormat THEN embedded.time ELSE NoTime

strptime_raises(embedded) == embedded.format # ExpiresFormat

\* the api client of a session: the settings hold the token of the login
\* or none; _access_token is None as __init__ leaves it, or was set to the
\* token by the owner of the client
InitRotation ==
    /\ SessionAtRest
    /\ RestEnvelope
    /\ RestSpecial
    /\ RestSetMode
    /\ RestZones
    /\ RestConsumption
    /\ RestAuth
    /\ RestDevices
    /\ RestLater
    /\ \E t \in {None, "tokA"} :
          /\ api_settings = [EmptySettings EXCEPT !.access_token = t,
                                                  !.expires_at = IF t = None THEN NoTime ELSE 1]
          /\ api_client \in {NoSession} \cup
                {[access_token |-> t, token_expiration |-> 1] : x \in {t} \ {None}}
    /\ api_data = PlainBody
    /\ api_outcome = NoOutcome
    /\ api_sent = <<>>
    /\ api_pc = "idle"

\* request() up to `await self._sess.request`: PanasonicRequestHeader.get
\* signs with the token of the settings, or raises when they hold none
RequestSend ==
    /\ api_pc = "idle"
    /\ Len(api_sent) < MaxRequests
    /\ IF api_settings.access_token = None
       THEN /\ api_outcome' = [kind |-> ATTRIBUTE_ERROR, error_code |-> None,
                               error_message |-> None]
            /\ api_sent' = api_sent
            /\ api_pc' = "raised"
       ELSE /\ api_outcome' = api_outcome
            /\ api_sent' = Append(api_sent, api_settings.access_token)
            /\ api_pc' = "awaiting"
    /\ UNCHANGED <<sessionVars, notRotation, api_client, api_settings, api_data>>

\* request() from the response on: a JSON body with "accessToken" holding
\* "token" and "expires" replaces _access_token and _token_expiration when
\* _access_token is set; then the messages are looked at
RequestAnswered ==
    /\ api_pc = "awaiting"
    /\ \E body \in RotationBodies, throw \in BOOLEAN :
          LET rotates == body.json /\ api_client.access_token # None
                            /\ contains_valid_token(body)
          IN  /\ api_data' = body
              /\ api_client' =
                    IF ~rotates THEN api_client
                    ELSE [access_token |-> body.accessToken.token,
                          token_expiration |->
                              IF strptime_raises(body.accessToken)
                              THEN api_client.token_expiration
                              ELSE strptime(body.accessToken)]
              /\ api_outcome' =
                    IF rotates /\ strptime_raises(body.accessToken)
                    THEN [kind |-> VALUE_ERROR, error_code |-> None, error_message |-> None]
                    ELSE IF ~body.json
                    THEN [kind |-> "return", error_code |-> None, error_message |-> None]
                    ELSE request_outcome(body, throw)
    /\ api_pc' = "idle"
    /\ UNCHANGED <<sessionVars, notRotation, api_settings, api_sent>>

NextRotation == RequestSend \/ RequestAnswered

SpecRotation == InitRotation /\ [][NextRotation]_vars

\* -------------------------------------------------------- devices and zones
NumDevices == 2
MaxDeviceRefreshes == 1

\* the modules that define a DeviceImpl
DeviceModules == {"entities", "core"}

\* q holds zone ids in ascending order, each at most once
AscendingIds(q) == \A i, j \in 1..Len(q) : i < j => q[i].zone_id < q[j].zone_id

\* DeviceInfo.zones of a device: descriptors of one or more zones
DeviceZoneLists ==
    {q \in UNION {SeqsOfLen(ZoneDescriptors, n) : n \in 1..NumZones} :
        AscendingIds(q) /\ \A i \in 1..Len(q) : q[i].zone_sensor = "INTERNAL"}

\* DeviceStatus.zones of a snapshot: at most one entry per zone id
DeviceSnapshots ==
    {q \in UNION {SeqsOfLen(ZoneStatusEntries, n) : n \in 0..MaxZoneEntries} :
        AscendingIds(q) /\ \A i \in 1..Len(q) : q[i].heat_set = 40}

\* the zone ids of a list of descriptors
ZoneIds(infos) == {infos[i].zone_id : i \in 1..Len(infos)}

\* no Device instance yet: the dict of the class is empty
InitDevices ==
    /\ SessionAtRest
    /\ RestEnvelope
    /\ RestSpecial
    /\ RestSetMode
    /\ RestZones
    /\ RestConsumption
    /\ RestAuth
    /\ RestRotation
    /\ RestLater
    /\ class_zones = [z \in 1..NumZones |-> NotBuilt]
    /\ devices = <<>>
    /\ devices_impl \in DeviceModules

\* Device.__init__: _info and _status are stored and __build_zones__ stores
\* one DeviceZone per descriptor in self._zones, which is the dict of the class
NewDevice ==
    /\ Len(devices) < NumDevices
    /\ \E infos \in DeviceZoneLists, snapshot \in DeviceSnapshots :
          /\ devices' = Append(devices, [info |-> infos, status |-> snapshot,
                                         refreshes |-> 0, err |-> None])
          /\ class_zones' = build_zones(infos, snapshot, class_zones)
    /\ UNCHANGED <<sessionVars, notDevices, devices_impl>>

\* DeviceImpl.refresh_data of a device without tank and without consumption
\* refresh, from the answer of get_device_status on: _status is replaced;
\* core.py then calls self.__build_zones__() without its argument
DeviceRefresh(d) ==
    /\ devices[d].refreshes < MaxDeviceRefreshes
    /\ devices[d].err = None
    /\ \E snapshot \in DeviceSnapshots :
          devices' = [devices EXCEPT ![d].status = snapshot,
                                     ![d].refreshes = @ + 1,
                                     ![d].err = IF devices_impl = "core"
                                                THEN TYPE_ERROR ELSE None]
    /\ UNCHANGED <<sessionVars, notDevices, class_zones, devices_impl>>

NextDevices == NewDevice \/ \E d \in 1..Len(devices) : DeviceRefresh(d)

SpecDevices == InitDevices /\ [][NextDevices]_vars

\* ------------------------------------------- special status of a fetched device
NumSpecialZones == 2
MaxDeviceSteps == 4

\* DeviceZone.supports_special_status
supports_special_status(z) == z.zone_sensor # "External"

\* DeviceZone.__init__ sets _temperature_modifiers only `if self.supports_special_status`
has_temperature_modifiers(z) == supports_special_status(z)

\* Device.support_special_status
support_special_status(zs) == \E i \in DOMAIN zs : supports_special_status(zs[i])

\* the zones of a device: heat-only zones of either kind of sensor
DeviceSpecialZones ==
    {[zone_sensor |-> zs, heat_set |-> hs, heat_min |-> TempLow, heat_max |-> TempHigh,
      cool_set |-> NoTemp, cool_min |-> CoolLow, cool_max |-> CoolHigh,
      eco |-> [heat |-> 0 - 2, cool |-> 2], comfort |-> [heat |-> 2, cool |-> 0 - 2]] :
        zs \in {"Internal", "External"}, hs \in {TempLow + 2, TempHigh - 1}}

\* the targets of zones, as a status snapshot or a request carries them
zone_targets(zs) == [i \in DOMAIN zs |-> [cool_set |-> zs[i].cool_set, heat_set |-> zs[i].heat_set]]

\* the special status a backend keeps for the "specialStatus" it was sent
special_status_of(value) ==
    IF value = 1 THEN "ECO" ELSE IF value = 2 THEN "COMFORT" ELSE None

\* the list comprehension of Device.set_special_status: one update per zone
\* of self.zones.values()
zone_updates(zs, current_status, new_status) ==
    [i \in DOMAIN zs |-> calculate_zone_special_status_update(zs[i], current_status, new_status)]

\* one entry of the record of calls made on the device
DeviceCall(call, arg, ended, special, backend, posts) ==
    [call |-> call, arg |-> arg, result |-> ended, special |-> special,
     backend |-> backend, posts |-> posts]

InitDeviceSpecial ==
    /\ SessionAtRest
    /\ RestEarlier
    /\ RestStatus
    /\ RestCompose
    /\ RestGetDevices
    /\ ds_zones \in [1..NumSpecialZones -> DeviceSpecialZones]
    /\ ds_special = None
    /\ ds_backend = [special |-> None, targets |-> zone_targets(ds_zones)]
    /\ ds_posts = <<>>
    /\ ds_outcome = <<>>

\* Device.set_special_status, with DeviceImpl.__set_special_status__ and
\* post_device_set_special_status: the backend takes what was posted, the
\* device keeps its _status
DeviceSetSpecialStatus(new_status) ==
    /\ Len(ds_outcome) < MaxDeviceSteps
    /\ IF ~support_special_status(ds_zones)
       THEN /\ ds_outcome' = Append(ds_outcome,
                    DeviceCall("set_special_status", new_status, "Exception", ds_special,
                               ds_backend.special, Len(ds_posts)))
            /\ UNCHANGED <<ds_posts, ds_backend>>
       ELSE IF ds_special = new_status
       THEN /\ ds_outcome' = Append(ds_outcome,
                    DeviceCall("set_special_status", new_status, "returned", ds_special,
                               ds_backend.special, Len(ds_posts)))
            /\ UNCHANGED <<ds_posts, ds_backend>>
       ELSE IF \E i \in DOMAIN ds_zones : ~has_temperature_modifiers(ds_zones[i])
       THEN /\ ds_outcome' = Append(ds_outcome,
                    DeviceCall("set_special_status", new_status, ATTRIBUTE_ERROR, ds_special,
                               ds_backend.special, Len(ds_posts)))
            /\ UNCHANGED <<ds_posts, ds_backend>>
       ELSE /\ ds_posts' = Append(ds_posts,
                    [specialStatus |-> special_status_value(new_status),
                     zoneStatus |-> zone_updates(ds_zones, ds_special, new_status)])
            /\ ds_backend' = [special |-> special_status_of(ds_posts'[Len(ds_posts')].specialStatus),
                              targets |-> ds_posts'[Len(ds_posts')].zoneStatus]
            /\ ds_outcome' = Append(ds_outcome,
                    DeviceCall("set_special_status", new_status, "posted", ds_special,
                               ds_backend'.special, Len(ds_posts')))
    /\ UNCHANGED <<sessionVars, notDeviceSpecial, ds_zones, ds_special>>

\* the status is fetched again: get_device_status builds the DeviceStatus
\* with special_status=None whatever "specialStatus" the backend reports;
\* Client.get_device builds a new device with zones of the new snapshot,
\* DeviceImpl.refresh_data replaces _status and keeps the zones it has
Refetch(how) ==
    /\ Len(ds_outcome) < MaxDeviceSteps
    /\ ds_special' = None
    /\ ds_zones' = IF how = "get_device"
                   THEN [i \in DOMAIN ds_zones |->
                           [ds_zones[i] EXCEPT !.cool_set = ds_backend.targets[i].cool_set,
                                               !.heat_set = ds_backend.targets[i].heat_set]]
                   ELSE ds_zones
    /\ ds_outcome' = Append(ds_outcome,
            DeviceCall(how, None, "returned", ds_special', ds_backend.special, Len(ds_posts)))
    /\ UNCHANGED <<sessionVars, notDeviceSpecial, ds_posts, ds_backend>>

NextDeviceSpecial ==
    \/ \E new_status \in SpecialStatuses : DeviceSetSpecialStatus(new_status)
    \/ \E how \in {"get_device", "refresh_data"} : Refetch(how)

SpecDeviceSpecial == InitDeviceSpecial /\ [][NextDeviceSpecial]_vars

\* a device with a zone that supports special status and one that does not
MixedZones ==
    /\ \E i \in DOMAIN ds_zones : supports_special_status(ds_zones[i])
    /\ \E i \in DOMAIN ds_zones : ~supports_special_status(ds_zones[i])

\* ---------------------------------------------------------- get_device_status
\* `self._cache_devices[device_info.device_id] = 10`
CacheCountdown == 10

\* the modules with a get_device_status: aioaquarea/device_manager.py,
\* aioaquarea/core.py, custom_components/aquarea/aioaquarea/device_manager.py
StatusImpls == {"device_manager", "core", "custom"}

\* what a status request can raise: a transport failure or timeout, an
\* ApiError, an AuthenticationError
FetchErrors == {TRANSPORT_ERROR, OTHER_API_ERROR, SESSION_CLOSED}

\* mutation of attempts_live: a device in cached mode is never tried live
attempts_live_in_live_mode_only(impl, mode, cache) ==
    impl = "device_manager" \/ mode = "LIVE"

\* whether the call starts with the live request: always in
\* aioaquarea/device_manager.py; in the other two
\* `status_data_mode == LIVE or (id in _cache_devices and _cache_devices[id] <= 0)`
attempts_live(impl, mode, cache) ==
    \/ impl = "device_manager"
    \/ mode = "LIVE"
    \/ (cache.present /\ cache.count <= 0)

\* mutation of cached_failure: the exception of the cached request leaves as it is
cached_failure_propagated(impl, e) == e

\* how the call ends when the cached request raises e: RequestFailedError
\* from the nested except of aioaquarea/device_manager.py; e itself in core.py,
\* where the request is in no try; AttributeError in the custom component,
\* whose except passes and lets `json_response.get` run on None
cached_failure(impl, e) ==
    IF impl = "device_manager" THEN "RequestFailedError"
    ELSE IF impl = "core" THEN e
    ELSE ATTRIBUTE_ERROR

\* _cache_devices[id] after a successful cached request: unchanged in
\* aioaquarea/device_manager.py (no such dictionary) and in core.py (the
\* decrement is commented out), `_cache_devices.get(id, 10) - 1` in the
\* custom component
cache_after_cached_fetch(impl, cache) ==
    IF impl = "custom"
    THEN [present |-> TRUE,
          count |-> (IF cache.present THEN cache.count ELSE CacheCountdown) - 1]
    ELSE cache

\* get_device_status up to its first request
StartFetch ==
    /\ st_pc = "idle"
    /\ st_pc' = IF attempts_live(st_impl, st_mode, st_cache) THEN "live" ELSE "cached"
    /\ st_requests' = <<st_pc'>>
    /\ st_errors' = <<>>
    /\ st_outcome' = "pending"
    /\ UNCHANGED <<st_impl, st_mode, st_cache, st_live_up, st_served>>

InitStatus ==
    /\ SessionAtRest
    /\ RestEarlier
    /\ RestDeviceSpecial
    /\ RestCompose
    /\ RestGetDevices
    /\ st_impl \in StatusImpls
    /\ st_mode = "LIVE"
    /\ st_cache = NoCacheEntry
    /\ st_pc = "idle"
    /\ st_requests = <<>>
    /\ st_errors = <<>>
    /\ st_outcome = "none"
    /\ st_live_up \in BOOLEAN
    /\ st_served = 0

\* a poll: get_device_status is called
StatusCall ==
    /\ StartFetch
    /\ UNCHANGED <<sessionVars, notStatus>>

\* the live request is answered: the status is parsed from it
LiveOk ==
    /\ st_pc = "live"
    /\ st_live_up
    /\ st_pc' = "idle"
    /\ st_outcome' = "status_live"
    /\ st_mode' = IF st_impl = "device_manager" THEN st_mode ELSE "LIVE"
    /\ UNCHANGED <<sessionVars, notStatus, st_impl, st_cache, st_requests, st_errors,
                   st_live_up, st_served>>

\* the live request raises e: `except Exception`, then the cached request
LiveFail(e) ==
    /\ st_pc = "live"
    /\ ~st_live_up
    /\ st_errors' = Append(st_errors, e)
    /\ st_pc' = "cached"
    /\ st_requests' = Append(st_requests, "cached")
    /\ IF st_impl = "device_manager"
       THEN UNCHANGED <<st_mode, st_cache>>
       ELSE /\ st_mode' = "CACHED"
            /\ st_cache' = [present |-> TRUE, count |-> CacheCountdown]
    /\ st_served' = 0
    /\ UNCHANGED <<sessionVars, notStatus, st_impl, st_outcome, st_live_up>>

\* the cached request is answered: the status is parsed from it
CachedOk ==
    /\ st_pc = "cached"
    /\ st_pc' = "idle"
    /\ st_outcome' = "status_cached"
    /\ st_cache' = cache_after_cached_fetch(st_impl, st_cache)
    /\ st_served' = IF st_served < CacheCountdown THEN st_served + 1 ELSE st_served
    /\ UNCHANGED <<sessionVars, notStatus, st_impl, st_mode, st_requests, st_errors,
                   st_live_up>>

\* the cached request raises e
CachedFail(e) ==
    /\ st_pc = "cached"
    /\ st_errors' = Append(st_errors, e)
    /\ st_pc' = "idle"
    /\ st_outcome' = cached_failure(st_impl, e)
    /\ UNCHANGED <<sessionVars, notStatus, st_impl, st_mode, st_cache, st_requests,
                   st_live_up, st_served>>

\* the live endpoint stops answering, or answers again
EndpointChange ==
    /\ st_live_up' = ~st_live_up
    /\ UNCHANGED <<sessionVars, notStatus, st_impl, st_mode, st_cache, st_pc, st_requests,
                   st_errors, st_outcome, st_served>>

NextStatus ==
    \/ StatusCall
    \/ LiveOk
    \/ \E e \in FetchErrors : LiveFail(e)
    \/ CachedOk
    \/ \E e \in FetchErrors : CachedFail(e)
    \/ EndpointChange

SpecStatus == InitStatus /\ [][NextStatus]_vars

\* polling of one device through the custom component: polls continue, every
\* request is answered, and cached requests do not fail forever
InitPolling == InitStatus /\ st_impl = "custom"

SpecPolling ==
    /\ InitPolling
    /\ [][NextStatus]_vars
    /\ WF_vars(StatusCall)
    /\ WF_vars(LiveOk)
    /\ WF_vars(\E e \in FetchErrors : LiveFail(e))
    /\ SF_vars(CachedOk)

\* ------------------------------------------- Client.get_device, guard in guard
\* what login() can raise: an AuthenticationError or a transport failure
LoginErrors == {INVALID_USERNAME_OR_PASSWORD, TRANSPORT_ERROR}

\* core.auth_required, the except block: only an AuthenticationError is
\* caught; it is raised again for INVALID_USERNAME_OR_PASSWORD or when
\* refresh login is off; otherwise login() and a second call of fn
guard_retries(e, refresh_on) ==
    /\ IsAuthenticationError(e)
    /\ e # INVALID_USERNAME_OR_PASSWORD
    /\ refresh_on

\* where an exception goes that leaves the guard of get_device_status: into
\* the try of the guard of get_device on its first call of fn, out of
\* get_device on the second
propagate(attempt) == IF attempt.outer = 1 THEN "outer_except" ELSE "idle"

InitCompose ==
    /\ SessionAtRest
    /\ RestEarlier
    /\ RestDeviceSpecial
    /\ RestGetDevices
    /\ st_impl = "core"
    /\ st_mode = "LIVE"
    /\ st_cache = NoCacheEntry
    /\ st_pc = "idle"
    /\ st_requests = <<>>
    /\ st_errors = <<>>
    /\ st_outcome = "none"
    /\ st_live_up \in BOOLEAN
    /\ st_served = 0
    /\ cg_pc = "idle"
    /\ cg_attempt = [outer |-> 0, inner |-> 0]
    /\ cg_logged \in BOOLEAN
    /\ cg_logins = 0
    /\ cg_invocations = <<>>
    /\ cg_refresh \in BOOLEAN
    /\ cg_err = None

\* Client.get_device(device_info) is called: the guard of get_device starts
GetDeviceCall ==
    /\ cg_pc = "idle"
    /\ st_pc = "idle"
    /\ cg_pc' = "outer_pre"
    /\ cg_attempt' = [outer |-> 1, inner |-> 0]
    /\ cg_logins' = 0
    /\ cg_invocations' = <<>>
    /\ cg_err' = None
    /\ UNCHANGED <<sessionVars, notCompose, statusVars, cg_logged, cg_refresh>>

\* the guard of get_device: `if client.is_logged is False: await client.login()`,
\* then fn, the body of get_device, which calls self.get_device_status
OuterPre ==
    /\ cg_pc = "outer_pre"
    /\ IF cg_logged
       THEN /\ cg_pc' = "inner_pre"
            /\ UNCHANGED <<cg_logged, cg_logins, cg_err>>
       ELSE /\ cg_logins' = cg_logins + 1
            /\ \/ /\ cg_logged' = TRUE
                  /\ cg_pc' = "inner_pre"
                  /\ UNCHANGED cg_err
               \/ \E le \in LoginErrors :
                      /\ cg_err' = le
                      /\ cg_pc' = "idle"
                      /\ UNCHANGED cg_logged
    /\ UNCHANGED <<sessionVars, notCompose, statusVars, cg_attempt, cg_invocations, cg_refresh>>

\* the guard of get_device_status: its own check of is_logged, then fn, the
\* body of get_device_status, up to its first request
InnerPre ==
    /\ cg_pc = "inner_pre"
    /\ IF cg_logged
       THEN /\ StartFetch
            /\ cg_pc' = "fetching"
            /\ cg_attempt' = [cg_attempt EXCEPT !.inner = 1]
            /\ cg_invocations' = Append(cg_invocations, "pending")
            /\ UNCHANGED <<cg_logged, cg_logins, cg_err>>
       ELSE /\ cg_logins' = cg_logins + 1
            /\ \/ /\ cg_logged' = TRUE
                  /\ StartFetch
                  /\ cg_pc' = "fetching"
                  /\ cg_attempt' = [cg_attempt EXCEPT !.inner = 1]
                  /\ cg_invocations' = Append(cg_invocations, "pending")
                  /\ UNCHANGED cg_err
               \/ \E le \in LoginErrors :
                      /\ cg_err' = le
                      /\ cg_pc' = propagate(cg_attempt)
                      /\ UNCHANGED <<statusVars, cg_logged, cg_attempt, cg_invocations>>
    /\ UNCHANGED <<sessionVars, notCompose, cg_refresh>>

\* the body of get_device_status has ended: with a status, which both guards
\* return, or with an exception, which is in the try of the guard of
\* get_device_status on its first call of fn and leaves that guard on the second
FetchReturns ==
    /\ cg_pc = "fetching"
    /\ st_pc = "idle"
    /\ cg_invocations' = [cg_invocations EXCEPT ![Len(cg_invocations)] = st_outcome]
    /\ IF st_outcome \in {"status_live", "status_cached"}
       THEN /\ cg_pc' = "idle"
            /\ cg_err' = None
       ELSE /\ cg_err' = st_outcome
            /\ cg_pc' = IF cg_attempt.inner = 1 THEN "inner_except"
                         ELSE propagate(cg_attempt)
    /\ UNCHANGED <<sessionVars, notCompose, statusVars, cg_attempt, cg_logged, cg_logins,
                   cg_refresh>>

\* the except block of the guard of get_device_status
InnerExcept ==
    /\ cg_pc = "inner_except"
    /\ IF ~guard_retries(cg_err, cg_refresh)
       THEN /\ cg_pc' = propagate(cg_attempt)
            /\ UNCHANGED <<statusVars, cg_attempt, cg_logged, cg_logins, cg_invocations, cg_err>>
       ELSE /\ cg_logins' = cg_logins + 1
            /\ \/ /\ cg_logged' = TRUE
                  /\ StartFetch
                  /\ cg_pc' = "fetching"
                  /\ cg_attempt' = [cg_attempt EXCEPT !.inner = 2]
                  /\ cg_invocations' = Append(cg_invocations, "pending")
                  /\ UNCHANGED cg_err
               \/ \E le \in LoginErrors :
                      /\ cg_err' = le
                      /\ cg_pc' = propagate(cg_attempt)
                      /\ UNCHANGED <<statusVars, cg_logged, cg_attempt, cg_invocations>>
    /\ UNCHANGED <<sessionVars, notCompose, cg_refresh>>

\* the except block of the guard of get_device: after login() the body of
\* get_device runs again and calls the guarded get_device_status again
OuterExcept ==
    /\ cg_pc = "outer_except"
    /\ IF ~guard_retries(cg_err, cg_refresh)
       THEN /\ cg_pc' = "idle"
            /\ UNCHANGED <<cg_attempt, cg_logged, cg_logins, cg_err>>
       ELSE /\ cg_logins' = cg_logins + 1
            /\ \/ /\ cg_logged' = TRUE
                  /\ cg_pc' = "inner_pre"
                  /\ cg_attempt' = [outer |-> 2, inner |-> 0]
                  /\ UNCHANGED cg_err
               \/ \E le \in LoginErrors :
                      /\ cg_err' = le
                      /\ cg_pc' = "idle"
                      /\ UNCHANGED <<cg_logged, cg_attempt>>
    /\ UNCHANGED <<sessionVars, notCompose, statusVars, cg_invocations, cg_refresh>>

\* the token expires between two calls of get_device
SessionExpires ==
    /\ cg_pc = "idle"
    /\ cg_logged
    /\ cg_logged' = FALSE
    /\ UNCHANGED <<sessionVars, notCompose, statusVars, cg_pc, cg_attempt, cg_logins,
                   cg_invocations, cg_refresh, cg_err>>

NextCompose ==
    \/ GetDeviceCall
    \/ OuterPre
    \/ InnerPre
    \/ LiveOk
    \/ \E e \in FetchErrors : LiveFail(e)
    \/ CachedOk
    \/ \E e \in FetchErrors : CachedFail(e)
    \/ EndpointChange
    \/ FetchReturns
    \/ InnerExcept
    \/ OuterExcept
    \/ SessionExpires

SpecCompose == InitCompose /\ [][NextCompose]_vars

\* ---------------------------------------------------- DeviceManager.get_devices
MaxGetDevicesRuns == 6

\* what the group listing request can raise
GroupsErrors == {MISSING_AUTHENTICATION_TOKEN, OTHER_API_ERROR, TRANSPORT_ERROR, SESSION_CLOSED}

\* the devices a group listing names, in order
GroupListings == {<<>>, <<1>>, <<2>>, <<1, 2>>, <<2, 1>>}

\* one run of get_devices in the record of runs
DevicesRun(asked, ended, listed) ==
    [requested |-> asked, result |-> ended, list |-> listed]

\* get_devices up to its request: `if self._devices is None:` sets
\* _devices = [] and sends the group listing request; otherwise
\* `return self._devices + self._unknown_devices`
get_devices_body(attempt, runs) ==
    IF ~gd_devices.discovered
    THEN /\ gd_devices' = [discovered |-> TRUE, list |-> <<>>]
         /\ gd_pc' = [gd_pc EXCEPT !.at = "groups", !.attempt = attempt]
         /\ gd_requests' = Append(runs, DevicesRun(TRUE, "pending", <<>>))
         /\ gd_outcome' = "pending"
    ELSE /\ gd_pc' = [gd_pc EXCEPT !.at = "idle", !.attempt = attempt]
         /\ gd_requests' = Append(runs, DevicesRun(FALSE, "returned", gd_devices.list))
         /\ gd_outcome' = "returned"
         /\ UNCHANGED gd_devices

InitGetDevices ==
    /\ SessionAtRest
    /\ RestEarlier
    /\ RestDeviceSpecial
    /\ RestStatus
    /\ RestCompose
    /\ gd_devices = NotDiscovered
    /\ gd_pc \in {[at |-> "idle", attempt |-> 0, refresh |-> r] : r \in BOOLEAN}
    /\ gd_requests = <<>>
    /\ gd_outcome = "none"

\* get_devices is called through the session guard
GetDevicesCall ==
    /\ gd_pc.at = "idle"
    /\ Len(gd_requests) < MaxGetDevicesRuns
    /\ get_devices_body(1, gd_requests)
    /\ UNCHANGED <<sessionVars, notGetDevices>>

\* the group listing is answered: the devices it names are appended
GroupsAnswered(listing) ==
    /\ gd_pc.at = "groups"
    /\ gd_devices' = [gd_devices EXCEPT !.list = gd_devices.list \o listing]
    /\ gd_requests' = [gd_requests EXCEPT ![Len(gd_requests)] =
                          DevicesRun(TRUE, "returned", gd_devices'.list)]
    /\ gd_pc' = [gd_pc EXCEPT !.at = "idle"]
    /\ gd_outcome' = "returned"
    /\ UNCHANGED <<sessionVars, notGetDevices>>

\* the group listing request raises e: get_devices raises with _devices left
\* as it is; on its first attempt the guard of decorators.py decides, and
\* after a login() it runs get_devices a second time
GroupsFailed(e) ==
    /\ gd_pc.at = "groups"
    /\ LET failed == [gd_requests EXCEPT ![Len(gd_requests)] = DevicesRun(TRUE, e, <<>>)]
           decision == IF gd_pc.attempt = 1 THEN decorators_wrap(gd_pc.refresh, e) ELSE "raise"
       IN  \/ /\ decision = "raise"
              /\ gd_requests' = failed
              /\ gd_pc' = [gd_pc EXCEPT !.at = "idle"]
              /\ gd_outcome' = e
              /\ UNCHANGED gd_devices
           \/ /\ decision = "attribute_error"
              /\ gd_requests' = failed
              /\ gd_pc' = [gd_pc EXCEPT !.at = "idle"]
              /\ gd_outcome' = ATTRIBUTE_ERROR
              /\ UNCHANGED gd_devices
           \/ /\ decision = "relogin"
              /\ \E le \in LoginErrors :
                    /\ gd_requests' = failed
                    /\ gd_pc' = [gd_pc EXCEPT !.at = "idle"]
                    /\ gd_outcome' = le
                    /\ UNCHANGED gd_devices
           \/ /\ decision = "relogin"
              /\ get_devices_body(2, failed)
    /\ UNCHANGED <<sessionVars, notGetDevices>>

NextGetDevices ==
    \/ GetDevicesCall
    \/ \E listing \in GroupListings : GroupsAnswered(listing)
    \/ \E e \in GroupsErrors : GroupsFailed(e)

SpecGetDevices == InitGetDevices /\ [][NextGetDevices]_vars

\* ----------------------------------------------------------------- type check
TypeOK ==
    /\ variant \in Variants
    /\ refresh_login \in BOOLEAN
    /\ clock \in 0..MaxClock
    /\ login_lock \in {0} \cup Callers
    /\ \A c \in Callers : opCalls[c] \in 0..2 /\ loginCalls[c] \in 0..2

\* fn is never invoked while the settings hold no token, so the branch of
\* PanasonicRequestHeader.get that raises for a missing token is not taken
TokenPresentWhenInvoked ==
    \A c \in Callers : pc[c] = "op" => settings.access_token # None


\* ======================================================================
\* Claims
\* ======================================================================

\* C1 - retry bound: within one guarded call login() is called at most twice
\* and fn is invoked at most twice; when the second invocation fails too, the
\* call ends with that error (no third attempt).
C1_RetryBound ==
    \A c \in Callers :
        /\ loginCalls[c] <= 2
        /\ opCalls[c] <= 2
        /\ Len(result[c]) <= 2
        /\ (Len(result[c]) = 2 /\ result[c][2] # "ok")
              => (pc[c] = "raised" /\ err[c] = result[c][2])

C1_Witness ==
    \E c \in Callers :
        /\ refresh_login
        /\ result[c] = <<SESSION_CLOSED, SESSION_CLOSED>>
        /\ loginCalls[c] = 2
        /\ opCalls[c] = 2
        /\ pc[c] = "raised"

\* C2 as claimed - with auto-relogin enabled, after a first failure with any
\* AuthenticationError or ApiError other than invalid username or password, the
\* guard logs in once and invokes fn once more, whose outcome is the call's.
C2_Original ==
    \A c \in Callers :
        (/\ refresh_login
         /\ Len(result[c]) >= 1
         /\ IsApiError(result[c][1])
         /\ result[c][1] # INVALID_USERNAME_OR_PASSWORD)
        => /\ relogins[c] = 1
           /\ pc[c] = "returned" => opCalls[c] = 2

C4_NoDuplicateLogin ==
    \A c \in Callers : pc[c] \in AuthPcs => ~(loginDone > intent[c])

\* C5 as claimed - at no time are two executions of authenticate() and/or
\* refresh_token() in progress.
C5_Serialized ==
    Cardinality({c \in Callers : pc[c] \in AuthPcs \cup {"refresh_token"}}) <= 1

\* C6 as claimed - when authenticate() fails, CredentialState is what it was
\* when that authenticate() began.
C6_UnchangedOnFailure ==
    [][\A c \in Callers :
          (pc[c] \in AuthPcs /\ pc'[c] = "raised") => settings' = credBefore[c]]_vars

\* C7 as claimed - right after login() raised, is_logged is False.
C7_NotLoggedAfterFailure ==
    [][\A c \in Callers :
          (pc[c] \in LoginPcs /\ pc'[c] = "raised")
          => ~is_logged(access_token', token_expiration', clock')]_vars

\* C8 - is_logged is False without a token, True with a token and no recorded
\* expiry, and with both it is True exactly while now is before the expiry.
C8_SessionValidity ==
    logged_result # "unread" =>
        /\ (access_token \in {None, ""}) => logged_result = "False"
        /\ (access_token \notin {None, ""} /\ token_expiration = NoTime)
              => logged_result = "True"
        /\ (access_token \notin {None, ""} /\ token_expiration # NoTime)
              => (logged_result = "True" <=> clock < token_expiration)

C8_Witness ==
    /\ logged_result = "False"
    /\ access_token = "tokA"
    /\ token_expiration # NoTime
    /\ clock = token_expiration

\* C9 as claimed - no request goes out with the signed headers but without a
\* signature.
C9_NeverUnsigned ==
    \A c \in Callers : sent[c].authorization # None => sent[c].api_key # None

\* C10 - within one guarded call the backend applies the control request at
\* most once, re-login and re-invocation included.
C10_AppliedAtMostOnce ==
    \A c \in Callers : applied[c] <= 1

C10_Witness ==
    \E c \in Callers :
        /\ relogins[c] = 1
        /\ opCalls[c] = 2
        /\ result[c] = <<SESSION_CLOSED, "ok">>
        /\ applied[c] = 1
        /\ pc[c] = "returned"

\* C11 as claimed - with throw_on_error, a body whose only message is: an entry
\* with errorCode '1001-1401' raises AuthenticationError with that code; an
\* entry with the unknown code '9999' raises ApiError with its code and
\* message; a bare string containing 'Token expires' raises AuthenticationError
\* (token expired); a body without message entries returns the response.
C11_EnvelopeClassification ==
    (outcome # NoOutcome /\ throw_on_error) =>
        /\ (data.items = <<>>) => outcome.kind = "return"
        /\ \A item \in EnvelopeItems :
              data.items = <<item>> =>
                /\ (item.kind = "dict" /\ item.errorCode = INVALID_USERNAME_OR_PASSWORD
                        /\ ~ContainsTokenExpires(item.errorMessage))
                     => (outcome.kind = "AuthenticationError"
                         /\ outcome.error_code = INVALID_USERNAME_OR_PASSWORD)
                /\ (item.kind = "dict" /\ item.errorCode = OTHER_API_ERROR
                        /\ ~ContainsTokenExpires(item.errorMessage))
                     => (outcome.kind = "ApiError"
                         /\ outcome.error_code = OTHER_API_ERROR
                         /\ outcome.error_message = item.errorMessage)
                /\ (item.kind = "str" /\ ContainsTokenExpires(item.errorMessage))
                     => outcome.kind = "AuthenticationError"

\* C12 as claimed - round trip: after None -> Eco and then Eco -> None the
\* update emitted holds exactly the zone's original heat and cool targets.
C12_RoundTrip ==
    history = <<"ECO", None>> => update = original

\* C13 - clamping: every update a revert or an apply step emits has its targets
\* within the zone's [min, max], and when status + delta passes a bound the
\* target emitted is that bound.
C13_Clamping ==
    [][(history' # history) =>
         /\ update'.heat_set >= zone.heat_min /\ update'.heat_set <= zone.heat_max
         /\ update'.cool_set # NoTemp =>
               (update'.cool_set >= zone.cool_min /\ update'.cool_set <= zone.cool_max)
         /\ (special_status = None) =>
               LET m == temperature_modifiers(zone, special_status')
               IN  /\ zone.heat_set + m.heat > zone.heat_max => update'.heat_set = zone.heat_max
                   /\ zone.heat_set + m.heat < zone.heat_min => update'.heat_set = zone.heat_min
                   /\ (zone.cool_set # NoTemp /\ zone.cool_set + m.cool > zone.cool_max)
                         => update'.cool_set = zone.cool_max
                   /\ (zone.cool_set # NoTemp /\ zone.cool_set + m.cool < zone.cool_min)
                         => update'.cool_set = zone.cool_min]_vars

\* heat target 60 with max 60 and an Eco delta of +5: 60 is emitted
C13_Witness ==
    /\ history = <<"ECO">>
    /\ original.heat_set = TempHigh
    /\ zone.heat_max = TempHigh
    /\ zone.eco.heat = MaxDelta
    /\ update.heat_set = TempHigh

\* C14 - aggregate status in set_mode: the device-level status posted is OFF
\* exactly when the mode is OFF, every zone's resulting status (targeted zones
\* as changed, the others as they are) is OFF and the device has no tank or its
\* tank is OFF; otherwise it is ON.
C14_AggregateStatus ==
    posted.state = "posted" =>
        LET targeted(z) == posted.zone_id = AllZones \/ posted.zone_id = z
            resulting(z) == IF targeted(z)
                            THEN (IF posted.mode = "OFF" THEN "OFF" ELSE "ON")
                            ELSE device.zones[z]
            all_off == /\ posted.mode = "OFF"
                       /\ \A z \in 1..NumZones : resulting(z) = "OFF"
                       /\ (~device.has_tank \/ device.tank = "OFF")
        IN  /\ posted.operation_status = (IF all_off THEN "OFF" ELSE "ON")
            /\ \A z \in 1..NumZones : posted.zones[z] = resulting(z)

\* mode OFF for zone 1 only while zone 2 is ON and the tank is OFF: ON is posted
C14_Witness ==
    /\ posted.state = "posted"
    /\ posted.mode = "OFF"
    /\ posted.zone_id = 1
    /\ device.zones[2] = "ON"
    /\ device.has_tank /\ device.tank = "OFF"
    /\ posted.operation_status = "ON"

C16_SkippedNotQueued ==
    /\ Cardinality({r \in Refreshers : rpc[r] = "get_device_consumption"}) <= 1
    /\ \A r \in Refreshers :
        /\ rpc[r] = "get_device_consumption" <=> consumption_refresh_lock = r
        /\ skipped[r] => rpc[r] = "done" /\ requested[r] = 0 /\ rerr[r] = None

\* a refresh_data call was skipped while another task held the lock, and a
\* task whose consumption refresh raised has left the lock free
C16_Witness ==
    \E r, q \in Refreshers :
        /\ skipped[r]
        /\ rpc[q] = "raised"
        /\ retrieval[q].answer # None
        /\ consumption_refresh_lock = 0

\* the answers that are a failure of the consumption retrieval: an ApiError,
\* an AuthenticationError, a token-expiry message, a transport failure, a body
\* that cannot be parsed
FailureAnswers == {OTHER_API_ERROR, SESSION_CLOSED, TOKEN_EXPIRES, TRANSPORT_ERROR, "not_json"}

C18_NoReloginWhenDisabled ==
    \A c \in Callers :
        (~refresh_login /\ Len(result[c]) >= 1 /\ IsApiError(result[c][1]))
        => /\ pc[c] = "raised"
           /\ err[c] = result[c][1]
           /\ relogins[c] = 0
           /\ opCalls[c] = 1
           /\ Len(result[c]) = 1

\* a session-closed failure, which the guard of core.py would retry, raised
\* at once with auto-relogin disabled
C18_Witness ==
    \E c \in Callers :
        /\ ~refresh_login
        /\ variant = "core"
        /\ result[c] = <<SESSION_CLOSED>>
        /\ pc[c] = "raised"
        /\ err[c] = SESSION_CLOSED

\* the awaits inside login() once the lock is held
LockHolderPcs == AuthPcs \cup {"groups"}

\* C19: a guarded call that finds the session invalid calls login() and does
\* not invoke fn; the first invocation of fn after that login happens in the
\* step in which login() returns (normally or as redundant) with the lock
\* released; and if that login ends without an invocation, the call has raised
\* the error of login() and fn was never invoked.
C19_LoginBeforeFirstInvocation ==
    [][\A c \in Callers :
        /\ (pc[c] = "idle" /\ pc'[c] # "idle" /\ ~IsLogged)
           => (loginCalls'[c] = 1 /\ opCalls'[c] = 0 /\ pc'[c] \in LoginPcs)
        /\ (loginCalls[c] = 1 /\ opCalls[c] = 0 /\ opCalls'[c] = 1)
           => (/\ pc[c] \in {"groups", "wait_lock"}
               /\ login_lock' = 0
               /\ pc[c] = "groups" => loginDone' = clock')
        /\ (pc[c] \in LoginPcs /\ relogins[c] = 0 /\ pc'[c] \notin LoginPcs
              /\ opCalls'[c] = 0)
           => (pc'[c] = "raised" /\ err'[c] # None /\ result'[c] = <<>>)
        /\ (pc[c] \in LoginPcs /\ relogins[c] = 0 /\ pc'[c] = "raised")
           => opCalls'[c] = 0
      ]_vars

\* the initial login of one call raised without an invocation, and the
\* initial login of another returned and fn was invoked
C19_Witness ==
    \E c, d \in Callers :
        /\ pc[c] = "raised" /\ loginCalls[c] = 1 /\ opCalls[c] = 0 /\ err[c] # None
        /\ loginCalls[d] = 1 /\ relogins[d] = 0 /\ opCalls[d] = 1

\* C20: every step that takes the holder of the login lock out of login()
\* - a normal return, a raise in authenticate() or in the group listing -
\* leaves the lock free, as does the redundant early return; the lock is only
\* ever held by a caller inside login(); with the lock free the first waiter
\* is ready to take it; and a caller waiting on the lock eventually stops
\* waiting (unless the model's clock has run out).
C20_LockReleased ==
    /\ [][\A c \in Callers :
            /\ (login_lock = c /\ pc'[c] \notin LockHolderPcs) => login_lock' = 0
            /\ (pc[c] = "wait_lock" /\ pc'[c] \notin LoginPcs) => login_lock' = 0
            /\ login_lock' = c => pc'[c] \in LockHolderPcs
            /\ pc'[c] = "wait_lock" <=> \E i \in 1..Len(waiters') : waiters'[i] = c
            /\ (login_lock' = 0 /\ waiters' # <<>>) => pc'[Head(waiters')] = "wait_lock"
       ]_vars
    /\ \A c \in Callers : (pc[c] = "wait_lock") ~> (pc[c] # "wait_lock" \/ clock = MaxClock)

\* the login of the holder has raised while another caller waits on the
\* lock: the lock is free and the waiter is the next to take it
C20_Witness ==
    \E c, d \in Callers :
        /\ pc[c] = "raised" /\ loginCalls[c] = 1 /\ opCalls[c] = 0
        /\ login_lock = 0
        /\ waiters = <<d>>
        /\ pc[d] = "wait_lock"

\* the answer to request i of the run is one the step rejects: its status is
\* not the one the step hands to check_response (the answer to the first
\* client-id POST that announces a new version is not checked but repeated)
Rejected(i) ==
    /\ auth_answers[i].status # expected_status(auth_sent[i].step)
    /\ ~(/\ auth_sent[i].step = "get_acc_client_id"
         /\ client_acc_repeat(client_acc_posts(auth_sent, i), auth_answers[i]))

\* C21 as claimed - an answer whose status is not the one its step expects
\* ends the run with an AuthenticationError, and the request it answered is
\* the last one of the run.
C21_UnexpectedStatusRaises ==
    \A i \in 1..Len(auth_answers) :
        Rejected(i)
        => /\ i = Len(auth_sent)
           /\ auth_pc \in {"raised", "idle"}
           /\ IsAuthenticationError(auth_err)

\* C22: a run of authenticate() sends at most two client-id POSTs; a
\* staleness answer (401 with code 4106) to the first is followed by one
\* refresh of the app version and one repeat of the POST; a staleness answer to
\* the repeat ends the run with an exception and nothing more is sent; and
\* the client id changes only in a step that received a 200 answer to a
\* client-id POST.
C22_StaleRetryOnce ==
    [][/\ client_acc_posts(auth_sent', Len(auth_sent')) <= 2
       /\ \A i \in 1..Len(auth_answers') :
            (/\ auth_sent'[i].step = "get_acc_client_id"
             /\ has_new_version_been_published(auth_answers'[i]))
            => IF client_acc_posts(auth_sent', i) = 1
               THEN /\ Len(auth_sent') >= i + 1
                    /\ auth_sent'[i + 1].step = "get_acc_client_id"
                    /\ version_refreshes' = 1
               ELSE /\ i = Len(auth_sent')
                    /\ auth_pc' \in {"raised", "idle"}
                    /\ auth_err' # None
                    /\ version_refreshes' = 1
       /\ (client_acc_posts(auth_sent', Len(auth_sent')) = 2)
            => (\E i \in 1..Len(auth_answers') :
                   /\ auth_sent'[i].step = "get_acc_client_id"
                   /\ has_new_version_been_published(auth_answers'[i]))
       /\ (auth_pc = "get_acc_client_id"
            /\ auth_answers'[Len(auth_answers')].status # 200)
            => auth_settings'.clientId = auth_settings.clientId
       /\ (auth_pc # "get_acc_client_id")
            => auth_settings'.clientId = auth_settings.clientId
      ]_vars

\* the first client-id POST was answered with the staleness signal, the
\* repeat with 200, and the client id is stored
C22_Witness ==
    /\ client_acc_posts(auth_sent, Len(auth_sent)) = 2
    /\ version_refreshes = 1
    /\ auth_pc = "done"
    /\ auth_answers[Len(auth_answers)].status = 200
    /\ has_new_version_been_published(auth_answers[Len(auth_answers) - 1])
    /\ auth_settings.clientId # None

\* C23 as claimed - the request refresh_token() sends has grant_type
\* refresh_token and carries the refresh token stored at that time; a 200
\* answer replaces access token, refresh token, expiry and scope by the values
\* returned; any other answer changes none of them.
C23_RefreshExchange ==
    [][/\ (auth_pc' = "refresh_token" /\ auth_settings'.refresh_token # None)
            => /\ auth_sent'[Len(auth_sent')].grant_type = "refresh_token"
               /\ auth_sent'[Len(auth_sent')].refresh_token = auth_settings'.refresh_token
       /\ (auth_pc = "refresh_token" /\ auth_pc' = "done")
            => /\ auth_answers'[Len(auth_answers')].status = 200
               /\ \E r \in TokenResponses :
                     /\ auth_settings'.access_token = r.access_token
                     /\ auth_settings'.refresh_token = r.refresh_token
                     /\ auth_settings'.scope = r.scope
                     /\ auth_settings'.expires_at = auth_stamp + r.expires_in
       /\ (auth_pc = "refresh_token" /\ auth_answers'[Len(auth_answers')].status # 200)
            => /\ auth_settings' = auth_settings
               /\ auth_pc' = "raised"
      ]_vars

\* C24 as claimed - the expiry recorded for a token is never later than the
\* time at which the server takes that token as expired (its issue time plus
\* expires_in), and is_logged never reports as valid a token the server
\* already takes as expired.
C24_ConservativeExpiry ==
    /\ auth_settings.expires_at # NoTime => auth_settings.expires_at <= server_expiry
    /\ is_logged(client_session.access_token, client_session.token_expiration, auth_now)
         => auth_now < session_server_expiry

\* the entries of a message list that are classified: a dict with both
\* "errorCode" and "errorMessage", or a string
Classifiable(item) == item.kind \in {"dict", "str"}

\* the kind of error claimed for an entry: AuthenticationError for a known
\* authentication code or a token-expiry text, ApiError otherwise
ClaimedKind(item) ==
    IF ContainsTokenExpires(item.errorMessage) THEN "AuthenticationError"
    ELSE IF item.kind = "dict" /\ item.errorCode \in AuthenticationErrorCodes
    THEN "AuthenticationError"
    ELSE "ApiError"

\* C25 as claimed - first classified error wins: with throw_on_error, the
\* error raised for a message list is the one of its first classifiable entry
\* in list order, and a list with no such entry (its entries lack errorCode or
\* errorMessage) raises nothing.
C25_FirstClassifiedWins ==
    (outcome # NoOutcome /\ throw_on_error /\ data.shape = "list") =>
        LET items == data.items
            found == {i \in 1..Len(items) : Classifiable(items[i])}
        IN  IF found = {} THEN outcome.kind = "return"
            ELSE LET first == CHOOSE i \in found : \A j \in found : i <= j
                 IN  /\ outcome.kind = ClaimedKind(items[first])
                     /\ (outcome.kind = "ApiError" /\ items[first].kind = "dict")
                          => /\ outcome.error_code = items[first].errorCode
                             /\ outcome.error_message = items[first].errorMessage

\* C26 as claimed - opportunistic token rotation: once request() has returned
\* for a response whose body carries an embedded access token together with
\* its expiry, the access token and the expiry of the settings equal the
\* embedded values, and the next signed request is sent with that token.
C26_TokenRotation ==
    (api_outcome.kind = "return" /\ contains_valid_token(api_data)) =>
        /\ api_pc = "idle" =>
              /\ api_settings.access_token = api_data.accessToken.token
              /\ api_settings.expires_at = api_data.accessToken.time
        /\ api_pc = "awaiting" =>
              api_sent[Len(api_sent)] = api_data.accessToken.token

\* C27 as claimed - when a device has been built, its zone map holds exactly
\* one zone per zone id of its own descriptor, built from its own status, and
\* nothing else: no zone of another Device instance and no zone left over from
\* an earlier build.
C27_ZoneMapOwnZonesOnly ==
    [][Len(devices') > Len(devices) =>
          LET built == devices'[Len(devices')]
          IN  \A z \in 1..NumZones :
                 class_zones'[z] = IF z \in ZoneIds(built.info)
                                   THEN zone_getters(find_zone_status(built.status, z))
                                   ELSE NotBuilt
      ]_vars

\* C28 as claimed - when refresh_data() has completed with a new snapshot,
\* every getter of every zone of the device returns the value of the entry of
\* the new snapshot with the same zone id.
C28_RefreshShowsNewSnapshot ==
    [][\A d \in 1..Len(devices) :
          (devices'[d].refreshes > devices[d].refreshes /\ devices'[d].err = None) =>
              \A z \in ZoneIds(devices[d].info) :
                  class_zones'[z] = zone_getters(find_zone_status(devices'[d].status, z))
      ]_vars

\* C29 - revert-then-apply: under a status S_old the deltas of S_old are
\* subtracted from the current targets and the result clamped; then, for a new
\* status other than none, its deltas are added to the reverted values and the
\* result clamped; with no prior status there is no revert step. For Eco ->
\* Comfort the target emitted is clamp(clamp(t - ecoDelta) + comfortDelta), for
\* heat and for cool.
C29_RevertThenApply ==
    [][(history' # history) =>
         LET old == special_status
             new == special_status'
             Minus(t, d, lo, hi) == IF t = NoTemp THEN NoTemp ELSE limit_range(t - d, lo, hi)
             Plus(t, d, lo, hi) == IF t = NoTemp THEN NoTemp ELSE limit_range(t + d, lo, hi)
             heat_reverted ==
                 IF old = None THEN zone.heat_set
                 ELSE Minus(zone.heat_set, temperature_modifiers(zone, old).heat,
                            zone.heat_min, zone.heat_max)
             cool_reverted ==
                 IF old = None THEN zone.cool_set
                 ELSE Minus(zone.cool_set, temperature_modifiers(zone, old).cool,
                            zone.cool_min, zone.cool_max)
         IN  /\ update'.heat_set =
                   IF new = None THEN heat_reverted
                   ELSE Plus(heat_reverted, temperature_modifiers(zone, new).heat,
                             zone.heat_min, zone.heat_max)
             /\ update'.cool_set =
                   IF new = None THEN cool_reverted
                   ELSE Plus(cool_reverted, temperature_modifiers(zone, new).cool,
                             zone.cool_min, zone.cool_max)
             /\ (old = "ECO" /\ new = "COMFORT") =>
                   /\ update'.heat_set =
                         limit_range(limit_range(zone.heat_set - zone.eco.heat,
                                                 zone.heat_min, zone.heat_max)
                                        + zone.comfort.heat, zone.heat_min, zone.heat_max)
                   /\ zone.cool_set # NoTemp =>
                         update'.cool_set =
                            limit_range(limit_range(zone.cool_set - zone.eco.cool,
                                                    zone.cool_min, zone.cool_max)
                                           + zone.comfort.cool, zone.cool_min, zone.cool_max)
    ]_vars

\* Eco -> Comfort on a zone with a cool target, where the revert step clamps:
\* the heat target emitted differs from clamp(t - ecoDelta + comfortDelta)
C29_Witness ==
    /\ history = <<"ECO", "COMFORT">>
    /\ special_status = "COMFORT"
    /\ zone.cool_set # NoTemp
    /\ LET t == limit_range(original.heat_set + zone.eco.heat, zone.heat_min, zone.heat_max)
       IN  /\ update.heat_set =
                 limit_range(limit_range(t - zone.eco.heat, zone.heat_min, zone.heat_max)
                                + zone.comfort.heat, zone.heat_min, zone.heat_max)
           /\ update.heat_set #
                 limit_range(t - zone.eco.heat + zone.comfort.heat,
                             zone.heat_min, zone.heat_max)

\* C30 as claimed - the zone update of a special-status change always carries
\* a heat target, and carries a cool target only for a zone with cool_mode
\* true; for a zone without cooling support the cool target is absent from the
\* update and from the body of the control request.
C30_CoolOnlyIfSupported ==
    (history # <<>>) =>
        /\ update.heat_set # NoTemp
        /\ "heatSet" \in special_request.keys
        /\ special_request.heatSet = update.heat_set
        /\ ~zone.cool_mode =>
              /\ update.cool_set = NoTemp
              /\ "coolSet" \notin special_request.keys

\* C34 as claimed - a caller that waited on the login lock skips its own
\* authenticate() only when a login() has returned successfully after the
\* waiter's intent timestamp; after a login() that raised, the waiter runs
\* authenticate() itself.
C34_WaiterSkipsOnlyAfterSuccess ==
    [][\A c \in Callers :
          (pc[c] = "wait_lock" /\ pc'[c] \notin LoginPcs) => loginDone > intent[c]
      ]_vars

C36_RefetchedEcoCanBeCleared ==
    \A i \in DOMAIN ds_outcome :
        (ds_outcome[i].call \in {"get_device", "refresh_data"} /\ ds_outcome[i].backend = "ECO")
          => /\ ds_outcome[i].special = "ECO"
             /\ (i < Len(ds_outcome) /\ ds_outcome[i + 1].call = "set_special_status"
                                     /\ ds_outcome[i + 1].arg = None)
                   => /\ ds_outcome[i + 1].result = "posted"
                      /\ ds_outcome[i + 1].posts = ds_outcome[i].posts + 1

\* C37: set_special_status on a device with a zone that supports special
\* status and a zone with an external sensor ends without an internal error
C37_MixedZonesNoInternalError ==
    \A i \in DOMAIN ds_outcome :
        (MixedZones /\ ds_outcome[i].call = "set_special_status")
          => ds_outcome[i].result \in {"posted", "returned"}

\* C31: a transport failure or timeout raised while the device status is
\* fetched ends the call with a failure, and the status fetch issues no
\* further request after it
C31_TransportFailureSurfaces ==
    (\E i \in DOMAIN st_errors : st_errors[i] = TRANSPORT_ERROR)
      => /\ Len(st_requests) = 1
         /\ st_pc = "idle" => st_outcome \notin {"status_live", "status_cached"}

\* C38: a call of get_device_status of aioaquarea/device_manager.py issues
\* the live request first and the cached request only after the live one
\* failed, two requests at most; a live answer is used with no cached
\* request; when both requests fail the call raises RequestFailedError
C38_LiveThenCachedOnce ==
    st_impl = "device_manager" /\ st_requests # <<>>
      => /\ st_requests \in {<<"live">>, <<"live", "cached">>}
         /\ Len(st_requests) = 2 => Len(st_errors) >= 1
         /\ st_outcome = "status_live" => st_requests = <<"live">> /\ st_errors = <<>>
         /\ st_outcome = "status_cached" => Len(st_errors) = 1
         /\ Len(st_errors) = 2 => st_pc = "idle" /\ st_outcome = "RequestFailedError"

C38_Witness ==
    /\ st_impl = "device_manager"
    /\ st_requests = <<"live", "cached">>
    /\ st_errors = <<TRANSPORT_ERROR, SESSION_CLOSED>>
    /\ st_outcome = "RequestFailedError"

\* the steps of the live/cached state machine of the custom component: a
\* failed live fetch marks the device CACHED with the counter at 10 and is
\* followed by a cached fetch in the same call; every successful cached fetch
\* takes one off the counter; a poll of a CACHED device tries the live fetch
\* exactly when 10 cached fetches have succeeded since the failure; a
\* successful live fetch marks the device LIVE
PollingStep ==
    /\ (st_pc = "live" /\ st_pc' # "live" /\ st_errors' # st_errors)
          => /\ st_mode' = "CACHED"
             /\ st_cache' = [present |-> TRUE, count |-> CacheCountdown]
             /\ st_pc' = "cached"
    /\ (st_pc = "cached" /\ st_outcome' = "status_cached")
          => st_cache'.count = st_cache.count - 1
    /\ (st_pc = "idle" /\ st_pc' # "idle" /\ st_mode = "CACHED")
          => /\ (st_pc' = "live") <=> (st_served = CacheCountdown)
             /\ (st_pc' = "live") <=> (st_cache.count = 0)
    /\ (st_pc = "live" /\ st_outcome' = "status_live") => st_mode' = "LIVE"

C32_ComposedRetryBound ==
    (\A i \in DOMAIN cg_invocations : cg_invocations[i] \in {"pending", SESSION_CLOSED})
      => /\ cg_logins <= 2
         /\ Len(cg_invocations) <= 2

\* C33: after a run of get_devices whose group listing request failed, the
\* next run of get_devices (a later call, or the second run of the session
\* guard after its login) sends the group listing request again
C33_FailedListingNotRecorded ==
    \A i \in DOMAIN gd_requests :
        (i > 1 /\ gd_requests[i - 1].requested
               /\ gd_requests[i - 1].result \notin {"pending", "returned"})
          => gd_requests[i].requested

====
